---- MODULE Spec2Model ----
(***************************************************************************)
(* Model of DatabaseManager (src/database.py): the meta-schema catalog     *)
(* (_tables, _fields), the backing storage tables it projects, the record  *)
(* operations, and the single sqlite3 connection through which every       *)
(* operation runs.                                                         *)
(*                                                                         *)
(* Names are sequences of characters so that SQLite's identifier rules     *)
(* (case-insensitive table/column names, tokens that do not parse) are     *)
(* computed, not assumed.  A value is tagged with its storage class        *)
(* (NULL, integer, text), so that the conversions SQLite applies when a    *)
(* value is stored in a typed column are computed too.                     *)
(*                                                                         *)
(* The connection is Python's sqlite3 in its default (legacy) transaction  *)
(* mode: a transaction is opened implicitly before INSERT/UPDATE/DELETE,   *)
(* DDL runs inside an already open transaction or else autocommits, and    *)
(* nothing is rolled back when a statement raises.  `disk` is the          *)
(* committed database; the other variables are the connection's view.      *)
(***************************************************************************)
EXTENDS Integers, Sequences, FiniteSets, TLC

\* ---------------------------------------------------------------- bounds
MaxTableSeq == 2
MaxFieldSeq == 2
MaxRowSeq == 2
MaxClock == 1

\* ---------------------------------------------------------------- inputs
NoName == <<>>

\* values as Python hands them to sqlite3 and gets them back
NULL == <<"null">>
Integer(n) == <<"integer", n>>
Text(s) == <<"text", s>>
IsNull(v) == v[1] = "null"
IsInteger(v) == v[1] = "integer"
IsText(v) == v[1] = "text"

\* a Python bool held in a dict next to values of other kinds
Bool(b) == <<"bool", b>>

\* a Python bool is bound as the integer 1 or 0
Bind(b) == IF b THEN Integer(1) ELSE Integer(0)

\* the truth value Python gives a value read back from a row
Truthy(v) == ~IsNull(v) /\ v # Integer(0) /\ v # Text(<<>>)

\* the text of CURRENT_TIMESTAMP and of datetime.now().isoformat() at clock t
CurrentTimestamp(t) == <<"current_timestamp", t>>
IsoFormat(t) == <<"isoformat", t>>

TableNames == { <<"a">>, <<"b">>, <<"A">>, <<"1", "x">> }
FieldNames == { <<"f">>, <<"1", "c">> }
IdColumn == <<"i", "d">>
CreatedAtColumn == <<"c", "r", "e", "a", "t", "e", "d", "_", "a", "t">>
UpdatedAtColumn == <<"u", "p", "d", "a", "t", "e", "d", "_", "a", "t">>
SystemColumns == { IdColumn, CreatedAtColumn, UpdatedAtColumn }
TableIds == 1 .. (MaxTableSeq + 1)
FieldIds == 1 .. (MaxFieldSeq + 1)
RowIds == 1 .. (MaxRowSeq + 1)
Times == 0 .. MaxClock

\* ------------------------------------------------- SQLite identifier rules
Digits == { "0", "1", "2", "3", "4", "5", "6", "7", "8", "9" }
LowerOf(c) == CASE c = "A" -> "a" [] c = "B" -> "b" [] c = "F" -> "f"
                [] c = "X" -> "x" [] OTHER -> c

\* SQLite compares table and column names case-insensitively.
Fold(name) == [i \in 1 .. Len(name) |-> LowerOf(name[i])]

\* An unquoted name interpolated into a statement parses as an identifier
\* only if it is non-empty and does not begin with a digit.
Parsable(name) == Len(name) > 0 /\ name[1] \notin Digits

\* --------------------------------------------------- SQLite type affinity
DigitChar(d) == CASE d = 0 -> "0" [] d = 1 -> "1" [] d = 2 -> "2" [] d = 3 -> "3"
                  [] d = 4 -> "4" [] d = 5 -> "5" [] d = 6 -> "6" [] d = 7 -> "7"
                  [] d = 8 -> "8" [] OTHER -> "9"
DigitValue(c) == CHOOSE d \in 0 .. 9 : DigitChar(d) = c

RECURSIVE DecimalText(_)
\* the decimal text of a non-negative integer
DecimalText(n) ==
    IF n < 10 THEN << DigitChar(n) >>
    ELSE Append(DecimalText(n \div 10), DigitChar(n % 10))

\* text that SQLite converts to a number without loss: here, a run of digits
LooksNumeric(s) == Len(s) > 0 /\ \A i \in 1 .. Len(s) : s[i] \in Digits

RECURSIVE NumberOf(_)
NumberOf(s) ==
    IF Len(s) = 0 THEN 0
    ELSE 10 * NumberOf(SubSeq(s, 1, Len(s) - 1)) + DigitValue(s[Len(s)])

\* the affinity SQLite derives from a column's declared type
Affinity(sql_type) ==
    CASE sql_type = "INTEGER" -> "INTEGER"
      [] sql_type = "TEXT" -> "TEXT"
      [] sql_type = "REAL" -> "REAL"
      [] OTHER -> "NUMERIC"

\* the value a column of the given affinity keeps when v is stored in it
ApplyAffinity(affinity, v) ==
    IF affinity = "TEXT"
    THEN IF IsInteger(v) THEN Text(DecimalText(v[2])) ELSE v
    ELSE IF IsText(v) /\ LooksNumeric(v[2]) THEN Integer(NumberOf(v[2])) ELSE v

\* files is the set of attachment directories on disk; created and seen are
\* history: the table ids create_table has returned, the table ids that
\* have been given out, and the record ids insert_record has returned for
\* each table name, as SQLite reads it, for as long as a Table Definition
\* has that name
VARIABLES tables, fields, store, seqTables, seqFields, inTx, disk, last, created, now, files,
          seen

vars == <<tables, fields, store, seqTables, seqFields, inTx, disk, last, created, now, files, seen>>

Snapshot(t, f, s, st, sf) ==
    [tables |-> t, fields |-> f, store |-> s, seqTables |-> st, seqFields |-> sf]

\* a call as its caller sees it: the arguments, then how it ended
CallWith(op, tname, id, fname, args, status, ret) ==
    [op |-> op, tname |-> tname, id |-> id, fname |-> fname, args |-> args,
     status |-> status, ret |-> ret]

NoArgs == << >>

Call(op, tname, id, fname, status, ret) ==
    CallWith(op, tname, id, fname, NoArgs, status, ret)

Errors == { "IntegrityError", "OperationalError", "AttributeError" }

\* ------------------------------------------------------ storage engine
EmptyStore == [k \in {} |-> 0]
EmptyRows == [r \in {} |-> 0]

StorageExists(name) == Fold(name) \in DOMAIN store

UserColumns(cols) == cols \ SystemColumns

\* the columns a row maps to values: every column but the key
RowColumns(cols) == cols \ { IdColumn }

\* CREATE TABLE name (id INTEGER PRIMARY KEY AUTOINCREMENT,
\*                    created_at TIMESTAMP ..., updated_at TIMESTAMP ...)
ProvisionTable(s, name) ==
    [k \in DOMAIN s \cup { Fold(name) } |->
        IF k = Fold(name)
        THEN [cols |-> SystemColumns,
              types |-> [c \in SystemColumns |->
                           IF c = IdColumn THEN "INTEGER" ELSE "TIMESTAMP"],
              rows |-> EmptyRows, seq |-> 0]
        ELSE s[k]]

\* DROP TABLE IF EXISTS name: the rows and the sqlite_sequence entry go too
DropTable(s, name) == [k \in DOMAIN s \ { Fold(name) } |-> s[k]]

\* ALTER TABLE tname ADD COLUMN col sql_type: existing rows read NULL in it
AddColumn(s, tname, col, sql_type) ==
    [s EXCEPT ![Fold(tname)] =
        [cols |-> @.cols \cup { col },
         types |-> [c \in @.cols \cup { col } |->
                      IF c \in @.cols THEN @.types[c] ELSE sql_type],
         rows |-> [r \in DOMAIN @.rows |->
                     [c \in RowColumns(@.cols) \cup { col } |->
                        IF c \in RowColumns(@.cols) THEN @.rows[r][c] ELSE NULL]],
         seq |-> @.seq]]

FoldAll(names) == { Fold(n) : n \in names }

\* ALTER TABLE tname ADD COLUMN col compiles and runs: the table exists, col
\* is an identifier, and no column of the table has that name in any case
CanAddColumn(s, tname, col) ==
    /\ Fold(tname) \in DOMAIN s
    /\ Parsable(col)
    /\ Fold(col) \notin FoldAll(s[Fold(tname)].cols)

Init ==
    /\ tables = {}
    /\ fields = {}
    /\ store = EmptyStore
    /\ seqTables = 0
    /\ seqFields = 0
    /\ inTx = FALSE
    /\ disk = Snapshot({}, {}, EmptyStore, 0, 0)
    /\ last = Call("idle", NoName, 0, NoName, "ok", 0)
    /\ created = {}
    /\ now = 0
    /\ files = {}
    /\ seen = [tables |-> {}, records |-> {}]

Idle == last.op = "idle"

\* a Table Definition of ts has the name, as SQLite reads names
Named(ts, name) == \E t \in ts : Fold(t.name) = Fold(name)

\* the caller has seen the outcome of the call and is ready for the next one
Return ==
    /\ ~Idle
    /\ last' = Call("idle", NoName, 0, NoName, "ok", 0)
    /\ UNCHANGED <<tables, fields, store, seqTables, seqFields, inTx, disk, created, now, files, seen>>

\* ------------------------------------------------------------ create_table
\* _tables.name is declared UNIQUE (exact, case-sensitive comparison)
UniqueTableNameUnchecked(name) == TRUE

UniqueTableName(name) == \A t \in tables : t.name # name

create_table(name) ==
    /\ Idle
    /\ IF ~UniqueTableName(name)
       THEN \* INSERT INTO _tables raises; the implicit BEGIN has already run
            /\ inTx' = TRUE
            /\ last' = Call("create_table", name, 0, NoName, "IntegrityError", 0)
            /\ UNCHANGED <<tables, fields, store, seqTables, seqFields, disk, created, now, files, seen>>
       ELSE LET table_id == seqTables + 1 IN
            /\ seqTables < MaxTableSeq
            /\ tables' = tables \cup { [id |-> table_id, name |-> name] }
            /\ seqTables' = table_id
            /\ seen' = [seen EXCEPT !.tables = @ \cup { table_id }]
            /\ UNCHANGED <<fields, seqFields>>
            /\ IF Parsable(name) /\ ~StorageExists(name)
               THEN /\ store' = ProvisionTable(store, name)
                    /\ inTx' = FALSE
                    /\ disk' = Snapshot(tables', fields, store', seqTables', seqFields)
                    /\ last' = Call("create_table", name, 0, NoName, "ok", table_id)
                    /\ created' = created \cup { table_id }
                    /\ now' = now
                    /\ files' = files
               ELSE \* CREATE TABLE raises: no rollback, the inserted row stays pending
                    /\ inTx' = TRUE
                    /\ last' = Call("create_table", name, 0, NoName, "OperationalError", 0)
                    /\ UNCHANGED <<store, disk, created, now, files>>

\* ------------------------------------------------------------ delete_table
SelectTableNameNoWhere(table_id) == tables

\* SELECT name FROM _tables WHERE id = ?
SelectTableName(table_id) == { t \in tables : t.id = table_id }

DeleteTableRowSkipped(t, table_id) == t

\* DELETE FROM _tables WHERE id = ?
DeleteTableRow(t, table_id) == { x \in t : x.id # table_id }

\* DELETE FROM _fields WHERE table_id = ?
DeleteFieldRows(f, table_id) == { x \in f : x.table_id # table_id }

delete_table(table_id) ==
    /\ Idle
    /\ LET row == SelectTableName(table_id) IN
       IF row = {}
       THEN /\ last' = Call("delete_table", NoName, table_id, NoName, "early_return", 0)
            /\ UNCHANGED <<tables, fields, store, seqTables, seqFields, inTx, disk, created, now, files, seen>>
       ELSE LET table_name == (CHOOSE t \in row : TRUE).name IN
            IF ~Parsable(table_name)
            THEN \* DROP TABLE IF EXISTS does not parse
                 /\ last' = Call("delete_table", table_name, table_id, NoName,
                                 "OperationalError", 0)
                 /\ UNCHANGED <<tables, fields, store, seqTables, seqFields, inTx,
                                disk, created, now, files, seen>>
            ELSE /\ store' = DropTable(store, table_name)
                 /\ fields' = DeleteFieldRows(fields, table_id)
                 /\ tables' = DeleteTableRow(tables, table_id)
                 /\ inTx' = FALSE
                 /\ disk' = Snapshot(tables', fields', store', seqTables, seqFields)
                 /\ last' = Call("delete_table", table_name, table_id, NoName, "ok", 0)
                 /\ seen' = [seen EXCEPT !.records = { p \in @ : Named(tables', p[1]) }]
                 /\ UNCHANGED <<seqTables, seqFields, created, now, files>>

\* SELECT * FROM _tables ORDER BY name, as the set of its rows
get_all_tables == tables

get_tableNoWhere(table_id) == tables

\* SELECT * FROM _tables WHERE id = ?: the matching row, if any
get_table(table_id) == { t \in tables : t.id = table_id }

\* --------------------------------------------------------------- add_field
\* _fields declares UNIQUE(table_id, name)
UniqueFieldNameUnchecked(table_id, name) == TRUE

UniqueFieldName(table_id, name) ==
    \A f \in fields : ~(f.table_id = table_id /\ f.name = name)

TableInfoNone(name) == {}

\* PRAGMA table_info(name): the columns of the storage table, none if absent
TableInfo(name) == IF StorageExists(name) THEN store[Fold(name)].cols ELSE {}

\* config.FIELD_TYPES
FIELD_TYPES ==
    { "text", "number", "date", "boolean", "email", "url", "phone", "richtext",
      "dropdown", "multiselect", "image", "file", "reference", "multireference" }

\* the dict type_mapping of _get_sql_type
type_mapping ==
    [field_type \in FIELD_TYPES |->
        CASE field_type = "number" -> "REAL"
          [] field_type = "boolean" -> "BOOLEAN"
          [] field_type = "reference" -> "INTEGER"
          [] OTHER -> "TEXT"]

_get_sql_typeText(field_type) == "TEXT"

\* type_mapping.get(field_type, 'TEXT')
_get_sql_type(field_type) ==
    IF field_type \in DOMAIN type_mapping THEN type_mapping[field_type] ELSE "TEXT"

FieldRowWithoutPosition(field_id, table_id, name, args) ==
    [id |-> field_id, table_id |-> table_id, name |-> name,
     display_name |-> args.display_name, field_type |-> args.field_type,
     is_required |-> Bind(args.is_required),
     is_unique |-> Bind(args.is_unique),
     show_in_list |-> Bind(args.show_in_list),
     options |-> args.options,
     reference_table_id |-> ApplyAffinity("INTEGER", args.reference_table_id),
     reference_display_field |-> args.reference_display_field,
     position |-> 0,
     cascade_delete |-> Bind(args.cascade_delete)]

\* the row INSERT INTO _fields (...) VALUES (?, ..., ?) stores under field_id;
\* args holds the parameters of add_field after table_id and name
FieldRow(field_id, table_id, name, args) ==
    [id |-> field_id, table_id |-> table_id, name |-> name,
     display_name |-> args.display_name, field_type |-> args.field_type,
     is_required |-> Bind(args.is_required),
     is_unique |-> Bind(args.is_unique),
     show_in_list |-> Bind(args.show_in_list),
     options |-> args.options,
     reference_table_id |-> ApplyAffinity("INTEGER", args.reference_table_id),
     reference_display_field |-> args.reference_display_field,
     position |-> args.position,
     cascade_delete |-> Bind(args.cascade_delete)]

add_field(table_id, name, args) ==
    /\ Idle
    /\ LET table == get_table(table_id)
           Outcome(tname, status) ==
               CallWith("add_field", tname, table_id, name, args, status, 0) IN
       IF table = {}
       THEN /\ last' = Outcome(NoName, "early_return")
            /\ UNCHANGED <<tables, fields, store, seqTables, seqFields, inTx, disk, created, now, files, seen>>
       ELSE LET table_name == (CHOOSE t \in table : TRUE).name IN
            IF ~Parsable(table_name)
            THEN \* PRAGMA table_info does not parse
                 /\ last' = Outcome(table_name, "OperationalError")
                 /\ UNCHANGED <<tables, fields, store, seqTables, seqFields, inTx,
                                disk, created, now, files, seen>>
            ELSE LET existing_columns == TableInfo(table_name) IN
                 IF ~UniqueFieldName(table_id, name)
                 THEN \* INSERT INTO _fields raises after the implicit BEGIN
                      /\ inTx' = TRUE
                      /\ last' = Outcome(table_name, "IntegrityError")
                      /\ UNCHANGED <<tables, fields, store, seqTables, seqFields,
                                     disk, created, now, files, seen>>
                 ELSE LET field_id == seqFields + 1 IN
                      /\ seqFields < MaxFieldSeq
                      /\ fields' = fields \cup
                           { FieldRow(field_id, table_id, name, args) }
                      /\ seqFields' = field_id
                      /\ UNCHANGED <<tables, seqTables, created, now, files, seen>>
                      /\ IF name \in existing_columns
                         THEN /\ inTx' = FALSE
                              /\ disk' = Snapshot(tables, fields', store, seqTables,
                                                  seqFields')
                              /\ last' = Outcome(table_name, "ok")
                              /\ UNCHANGED store
                         ELSE IF CanAddColumn(store, table_name, name)
                         THEN /\ store' = AddColumn(store, table_name, name,
                                                    _get_sql_type(args.field_type))
                              /\ inTx' = FALSE
                              /\ disk' = Snapshot(tables, fields', store', seqTables,
                                                  seqFields')
                              /\ last' = Outcome(table_name, "ok")
                         ELSE \* ALTER TABLE raises: the metadata row stays pending
                              /\ inTx' = TRUE
                              /\ last' = Outcome(table_name, "OperationalError")
                              /\ UNCHANGED <<store, disk>>

\* ------------------------------------------------------------ delete_field
DeleteFieldRowNoWhere(f, field_id) == {}

\* DELETE FROM _fields WHERE id = ?
DeleteFieldRow(f, field_id) == { x \in f : x.id # field_id }

delete_field(field_id) ==
    /\ Idle
    /\ fields' = DeleteFieldRow(fields, field_id)
    /\ inTx' = FALSE
    /\ disk' = Snapshot(tables, fields', store, seqTables, seqFields)
    /\ last' = Call("delete_field", NoName, field_id, NoName, "ok", 0)
    /\ UNCHANGED <<tables, store, seqTables, seqFields, created, now, files, seen>>

\* SELECT * FROM _fields WHERE table_id = ?, over the catalog rows fs
SelectFields(fs, table_id) == { f \in fs : f.table_id = table_id }

get_fields(table_id) == SelectFields(fields, table_id)

\* ----------------------------------------------------------- insert_record
StripSystemNothing(data) == data

\* data = {k: v for k, v in data.items() if k not in [id, created_at, updated_at]}
StripSystem(data) == [k \in DOMAIN data \ SystemColumns |-> data[k]]

insert_record(table_name, data0) ==
    /\ Idle
    /\ LET data == StripSystem(data0) IN
       IF \/ ~Parsable(table_name)
          \/ ~StorageExists(table_name)
          \/ \E k \in DOMAIN data : ~Parsable(k) \/ k \notin TableInfo(table_name)
       THEN \* the INSERT does not compile: no such table / column, or syntax error
            /\ last' = CallWith("insert_record", table_name, 0, NoName, data0,
                                "OperationalError", 0)
            /\ UNCHANGED <<tables, fields, store, seqTables, seqFields, inTx, disk, created, now, files, seen>>
       ELSE LET t == store[Fold(table_name)]
                \* the key is the next of the AUTOINCREMENT sequence unless
                \* the statement names one
                record_id == IF IdColumn \in DOMAIN data /\ IsInteger(data[IdColumn])
                             THEN data[IdColumn][2] ELSE t.seq + 1
                \* a supplied value is stored under the column's affinity; the
                \* timestamps default to CURRENT_TIMESTAMP, the rest to NULL
                row == [c \in RowColumns(t.cols) |->
                           IF c \in DOMAIN data
                           THEN ApplyAffinity(Affinity(t.types[c]), data[c])
                           ELSE IF c \in { CreatedAtColumn, UpdatedAtColumn }
                           THEN CurrentTimestamp(now)
                           ELSE NULL] IN
            /\ t.seq < MaxRowSeq
            /\ record_id \notin DOMAIN t.rows
            /\ store' = [store EXCEPT ![Fold(table_name)] =
                   [t EXCEPT !.rows = [r \in DOMAIN t.rows \cup { record_id } |->
                                         IF r = record_id THEN row ELSE t.rows[r]],
                             !.seq = IF record_id > t.seq THEN record_id
                                                          ELSE t.seq]]
            /\ inTx' = FALSE
            /\ disk' = Snapshot(tables, fields, store', seqTables, seqFields)
            /\ last' = CallWith("insert_record", table_name, 0, NoName, data0,
                                "ok", record_id)
            /\ seen' = [seen EXCEPT !.records =
                           IF Named(tables, table_name) THEN @ \cup { <<Fold(table_name), record_id>> }
                           ELSE @]
            /\ UNCHANGED <<tables, fields, seqTables, seqFields, created, now, files>>

\* dict(row) of one row of storage table t: the key and the other columns
Record(t, record_id) ==
    [c \in t.cols |-> IF c = IdColumn THEN Integer(record_id)
                                      ELSE t.rows[record_id][c]]

\* SELECT * FROM table_name WHERE id = ?, over storage s: the record, if any
SelectRecord(s, table_name, record_id) ==
    IF Fold(table_name) \in DOMAIN s /\ record_id \in DOMAIN s[Fold(table_name)].rows
    THEN { Record(s[Fold(table_name)], record_id) }
    ELSE {}

get_record(table_name, record_id) == SelectRecord(store, table_name, record_id)

\* ----------------------------------------------------------- update_record
StripKeyNothing(data) == data

\* data = {k: v for k, v in data.items() if k not in ['id', 'created_at']}
StripKey(data) == [k \in DOMAIN data \ { IdColumn, CreatedAtColumn } |-> data[k]]

\* data['updated_at'] = datetime.now().isoformat()
Stamp(data, t) ==
    [k \in DOMAIN data \cup { UpdatedAtColumn } |->
        IF k = UpdatedAtColumn THEN IsoFormat(t) ELSE data[k]]

\* UPDATE table_name SET k = ?, ... WHERE id = ?, over storage table t
UpdateRow(t, record_id, data) ==
    [t EXCEPT !.rows =
        [r \in DOMAIN t.rows |->
            IF r # record_id THEN t.rows[r]
            ELSE [c \in RowColumns(t.cols) |->
                    IF c \in DOMAIN data
                    THEN ApplyAffinity(Affinity(t.types[c]), data[c])
                    ELSE t.rows[r][c]]]]

update_record(table_name, record_id, data0) ==
    /\ Idle
    /\ LET data == Stamp(StripKey(data0), now) IN
       IF \/ ~Parsable(table_name)
          \/ ~StorageExists(table_name)
          \/ \E k \in DOMAIN data : ~Parsable(k) \/ k \notin TableInfo(table_name)
       THEN \* the UPDATE does not compile
            /\ last' = CallWith("update_record", table_name, record_id, NoName,
                                data0, "OperationalError", 0)
            /\ UNCHANGED <<tables, fields, store, seqTables, seqFields, inTx, disk, created, now, files, seen>>
       ELSE \* an id that matches no row changes nothing and is not an error
            /\ store' = [store EXCEPT ![Fold(table_name)] =
                            UpdateRow(@, record_id, data)]
            /\ inTx' = FALSE
            /\ disk' = Snapshot(tables, fields, store', seqTables, seqFields)
            /\ last' = CallWith("update_record", table_name, record_id, NoName,
                                data0, "ok", 0)
            /\ UNCHANGED <<tables, fields, seqTables, seqFields, created, now, files, seen>>

\* ----------------------------------------------------------- delete_record
\* the attributes DatabaseManager defines
DatabaseManagerMethods ==
    { "connect", "close", "initialize_schema", "create_table", "delete_table",
      "get_all_tables", "get_table", "add_field", "delete_field", "get_fields",
      "_get_sql_type", "insert_record", "update_record", "delete_record",
      "get_records", "get_record", "count_records", "search_records",
      "filter_records" }

\* get_records(table_name, where_clause = "<column> = ?"): the matching ids;
\* the SELECT does not compile when the table or the column is missing
CanSelectWhere(s, table_name, column) ==
    /\ Parsable(table_name) /\ Parsable(column)
    /\ Fold(table_name) \in DOMAIN s
    /\ Fold(column) \in FoldAll(UserColumns(s[Fold(table_name)].cols))

\* column = ? with the integer value bound: the parameter takes the
\* column's affinity before the comparison, and NULL equals nothing
SelectWhere(s, table_name, column, value) ==
    LET t == s[Fold(table_name)]
        c == CHOOSE x \in UserColumns(t.cols) : Fold(x) = Fold(column) IN
    { r \in DOMAIN t.rows :
        t.rows[r][c] = ApplyAffinity(Affinity(t.types[c]), Integer(value)) }

\* DELETE FROM table_name WHERE id = ?
DeleteRow(s, table_name, record_id) ==
    [s EXCEPT ![Fold(table_name)].rows =
        [r \in DOMAIN @ \ { record_id } |-> @[r]]]

\* the (other table, field) pairs the loops of delete_record stop at:
\* reference fields that point to table_id with cascade_delete set
CascadeFields(table_id) ==
    { [table_name |-> other_table.name, column |-> field.name] :
        <<other_table, field>> \in
            { p \in tables \X fields :
                /\ p[2].table_id = p[1].id
                /\ p[2].field_type = "reference"
                /\ p[2].reference_table_id = Integer(table_id)
                /\ Truthy(p[2].cascade_delete) } }

RECURSIVE delete_record_rows(_, _, _), DeleteEach(_, _, _), DeleteVia(_, _, _)

\* for ref_record in referencing_records: self.delete_record(other, id)
DeleteEach(res, other_table_name, ids) ==
    IF ids = {} \/ ~res.ok THEN res
    ELSE LET r == CHOOSE x \in ids : \A y \in ids : x <= y IN
         DeleteEach(delete_record_rows(res.s, other_table_name, r),
                    other_table_name, ids \ { r })

\* for other_table in all_tables: for field in fields: ...
DeleteVia(res, edges, record_id) ==
    IF edges = {} \/ ~res.ok THEN res
    ELSE LET e == CHOOSE x \in edges : TRUE IN
         IF ~CanSelectWhere(res.s, e.table_name, e.column)
         THEN [s |-> res.s, ok |-> FALSE]
         ELSE DeleteVia(DeleteEach(res, e.table_name,
                            SelectWhere(res.s, e.table_name, e.column, record_id)),
                        edges \ { e }, record_id)

\* the body of delete_record from the cascade loops on, over storage s
delete_record_rows(s, table_name, record_id) ==
    LET table == { t \in tables : t.name = table_name } IN
    IF table = {} THEN [s |-> s, ok |-> TRUE]
    ELSE LET table_id == (CHOOSE t \in table : TRUE).id
             res == DeleteVia([s |-> s, ok |-> TRUE], CascadeFields(table_id),
                              record_id) IN
         IF ~res.ok THEN res
         ELSE IF Parsable(table_name) /\ Fold(table_name) \in DOMAIN res.s
         THEN [s |-> DeleteRow(res.s, table_name, record_id), ok |-> TRUE]
         ELSE [s |-> res.s, ok |-> FALSE]

delete_record(table_name, record_id) ==
    /\ Idle
    /\ LET table == { t \in tables : t.name = table_name } IN
       IF table = {}
       THEN /\ last' = Call("delete_record", table_name, record_id, NoName,
                            "early_return", 0)
            /\ UNCHANGED <<tables, fields, store, seqTables, seqFields, inTx, disk, created, now, files, seen>>
       ELSE IF "get_tables" \notin DatabaseManagerMethods
       THEN \* all_tables = self.get_tables() raises before any row is touched
            /\ last' = Call("delete_record", table_name, record_id, NoName,
                            "AttributeError", 0)
            /\ UNCHANGED <<tables, fields, store, seqTables, seqFields, inTx, disk, created, now, files, seen>>
       ELSE LET res == delete_record_rows(store, table_name, record_id) IN
            /\ store' = res.s
            /\ last' = Call("delete_record", table_name, record_id, NoName,
                            IF res.ok THEN "ok" ELSE "OperationalError", 0)
            /\ IF res.ok \/ res.s # store
               THEN \* every completed (nested) delete_record has committed
                    /\ inTx' = FALSE
                    /\ disk' = Snapshot(tables, fields, store', seqTables, seqFields)
               ELSE UNCHANGED <<inTx, disk>>
            /\ UNCHANGED <<tables, fields, seqTables, seqFields, created, now, files, seen>>

\* ------------------------------------------------------------- get_records
RECURSIVE Ascending(_)
\* ORDER BY id ASC
Ascending(ids) ==
    IF ids = {} THEN << >>
    ELSE LET least == CHOOSE r \in ids : \A q \in ids : r <= q IN
         << least >> \o Ascending(ids \ { least })

\* SELECT * FROM table_name [WHERE ...] ORDER BY id ASC over storage table t,
\* the WHERE clause given as the set of row ids it keeps
SelectRecords(t, kept) ==
    LET ids == Ascending(kept) IN [i \in 1 .. Len(ids) |-> Record(t, ids[i])]

\* ---------------------------------------------- connect: NORMALIZE_SEARCH
\* A character is written by its name: "a_acute" and "A_acute" are the
\* precomposed letters U+00E1 and U+00C1, "acute" is the combining mark
\* U+0301.
\* unicodedata.normalize('NFD', text), one character at a time
Decompose(c) ==
    CASE c = "a_acute" -> << "a", "acute" >>
      [] c = "A_acute" -> << "A", "acute" >>
      [] OTHER -> << c >>

RECURSIVE NFD(_)
NFD(text) == IF Len(text) = 0 THEN << >> ELSE Decompose(Head(text)) \o NFD(Tail(text))

\* unicodedata.category(char) == 'Mn'
IsMark(c) == c = "acute"

\* ''.join(char for char in nfd if unicodedata.category(char) != 'Mn')
remove_accents(text) == SelectSeq(NFD(text), LAMBDA c : ~IsMark(c))

\* str.lower, one character at a time
Lower(c) ==
    CASE c = "A" -> "a" [] c = "B" -> "b" [] c = "A_acute" -> "a_acute" [] OTHER -> c

\* normalize_search on text: remove_accents(text).lower()
normalize_search(text) ==
    LET no_accents == remove_accents(text) IN
    [i \in 1 .. Len(no_accents) |-> Lower(no_accents[i])]

\* normalize_search raises on a value that is neither text nor falsy: the
\* function is handed the column's value, and unicodedata.normalize accepts
\* only str
NormalizeRaises(v) == IsInteger(v) /\ v # Integer(0)

\* NORMALIZE_SEARCH(v) for a value on which it does not raise: "if not text:
\* return text" hands NULL, 0 and '' back as they are
NormalizeValue(v) == IF IsText(v) THEN Text(normalize_search(v[2])) ELSE v

RECURSIVE Like(_, _)
\* text LIKE pattern: % matches any run of characters, _ any one character,
\* and no ESCAPE character is declared
Like(pattern, text) ==
    IF Len(pattern) = 0 THEN Len(text) = 0
    ELSE IF Head(pattern) = "%"
       THEN Like(Tail(pattern), text) \/ (Len(text) > 0 /\ Like(pattern, Tail(text)))
    ELSE IF Head(pattern) = "_"
       THEN Len(text) > 0 /\ Like(Tail(pattern), Tail(text))
    ELSE Len(text) > 0 /\ Head(text) = Head(pattern) /\ Like(Tail(pattern), Tail(text))

\* the text LIKE compares for a value: NULL has none, a number its decimal text
LikeOperand(v) == IF IsInteger(v) THEN DecimalText(v[2]) ELSE v[2]

\* NORMALIZE_SEARCH(column) LIKE NORMALIZE_SEARCH(?) for a stored value v
\* and the bound text param
NormalizedLike(v, param) ==
    /\ ~IsNull(v)
    /\ Like(normalize_search(param), LikeOperand(NormalizeValue(v)))

\* f"%{search_term}%"
Contains(search_term) == << "%" >> \o search_term \o << "%" >>

RECURSIVE AnyFieldLike(_, _, _)
\* where_parts joined by OR, evaluated left to right for one record: "yes",
\* "no", or "raise" when NORMALIZE_SEARCH raises before a part is true
AnyFieldLike(rec, names, search_term) ==
    IF Len(names) = 0 THEN "no"
    ELSE IF NormalizeRaises(rec[Head(names)]) THEN "raise"
    ELSE IF NormalizedLike(rec[Head(names)], Contains(search_term)) THEN "yes"
    ELSE AnyFieldLike(rec, Tail(names), search_term)

\* ---------------------------------------------------------- search_records
SearchArgs(names, search_term) == [fields |-> names, search_term |-> search_term]

search_records(table_name, names, search_term) ==
    /\ Idle
    /\ LET Outcome(status, ret) ==
               CallWith("search_records", table_name, 0, NoName,
                        SearchArgs(names, search_term), status, ret)
           t == store[Fold(table_name)]
           unfiltered == Len(names) = 0 \/ Len(search_term) = 0
           verdict == [r \in DOMAIN t.rows |-> AnyFieldLike(Record(t, r), names, search_term)] IN
       last' = IF ~Parsable(table_name) \/ ~StorageExists(table_name)
               THEN Outcome("OperationalError", << >>)
               ELSE IF unfiltered
               THEN Outcome("ok", SelectRecords(t, DOMAIN t.rows))
               ELSE IF \E i \in 1 .. Len(names) :
                          ~Parsable(names[i]) \/ names[i] \notin TableInfo(table_name)
               THEN \* no such column, or a name that does not parse
                    Outcome("OperationalError", << >>)
               ELSE IF \E r \in DOMAIN t.rows : verdict[r] = "raise"
               THEN \* user-defined function raised exception
                    Outcome("OperationalError", << >>)
               ELSE Outcome("ok", SelectRecords(t, { r \in DOMAIN t.rows : verdict[r] = "yes" }))
    /\ UNCHANGED <<tables, fields, store, seqTables, seqFields, inTx, disk, created, now, files, seen>>

\* ---------------------------------------------------------- filter_records
\* the code point of a character, for the characters used here
CodePoint(c) ==
    CASE c \in Digits -> 48 + DigitValue(c)
      [] c = "%" -> 37 [] c = "-" -> 45 [] c = "_" -> 95
      [] c = "A" -> 65 [] c = "B" -> 66 [] c = "a" -> 97 [] c = "b" -> 98
      [] c = "x" -> 120 [] c = "y" -> 121
      [] OTHER -> 200

RECURSIVE TextLess(_, _)
\* text compares character by character (BINARY collation)
TextLess(s, u) ==
    IF Len(u) = 0 THEN FALSE
    ELSE IF Len(s) = 0 THEN TRUE
    ELSE IF Head(s) # Head(u) THEN CodePoint(Head(s)) < CodePoint(Head(u))
    ELSE TextLess(Tail(s), Tail(u))

\* the order of two values that are numbers or text: numbers sort by value
\* and before every text
ValueLess(v, w) ==
    IF IsInteger(v) /\ IsInteger(w) THEN v[2] < w[2]
    ELSE IF IsText(v) /\ IsText(w) THEN TextLess(v[2], w[2])
    ELSE IsInteger(v) /\ IsText(w)

CompareUnbound(op, sql_type, v, param) == ~IsNull(v)

\* column <op> ? for the stored value v of a column of the given declared
\* type: the bound parameter takes the column's affinity, and a comparison
\* with NULL on either side is not true
Compare(op, sql_type, v, param) ==
    LET w == ApplyAffinity(Affinity(sql_type), param) IN
    /\ ~IsNull(v)
    /\ ~IsNull(w)
    /\ CASE op = ">=" -> ~ValueLess(v, w)
         [] op = "<=" -> ~ValueLess(w, v)
         [] OTHER -> v = w

\* one element of where_parts with the parameters it consumes
WherePart(op, column, param) == [op |-> op, column |-> column, param |-> param]

\* str(r['id']) for the records get_records returned
MatchingIds(matching_refs) ==
    { Text(DecimalText(matching_refs[i][IdColumn][2])) : i \in 1 .. Len(matching_refs) }

RECURSIVE InOrder(_)
\* ORDER BY position, id
InOrder(fs) ==
    IF fs = {} THEN << >>
    ELSE LET first == CHOOSE f \in fs :
                         \A g \in fs : \/ f.position < g.position
                                       \/ f.position = g.position /\ f.id <= g.id IN
         << first >> \o InOrder(fs \ { first })

\* the names of the text-like fields of the referenced table, in the order
\* get_fields lists them
SearchableRefFields(table_id) ==
    LET text_like == SelectSeq(InOrder(get_fields(table_id)),
                               LAMBDA f : f.field_type \in { "text", "email", "url", "phone", "richtext" }) IN
    [i \in 1 .. Len(text_like) |-> text_like[i].name]

\* the records of storage table t that match NORMALIZE_SEARCH(f) LIKE
\* NORMALIZE_SEARCH(?) for at least one f in names
RefRecords(t, names, search_value) ==
    SelectRecords(t, { r \in DOMAIN t.rows :
                         AnyFieldLike(Record(t, r), names, search_value) = "yes" })

\* the reference branch cannot run its query: the referenced storage table
\* is missing, or lacks the column of a searchable field, or
\* NORMALIZE_SEARCH raises on a row
RefQueryFails(ref_table_name, names, search_value) ==
    \/ ~Parsable(ref_table_name)
    \/ ~StorageExists(ref_table_name)
    \/ \E i \in 1 .. Len(names) : ~Parsable(names[i]) \/ names[i] \notin TableInfo(ref_table_name)
    \/ LET t == store[Fold(ref_table_name)] IN
       \E r \in DOMAIN t.rows : AnyFieldLike(Record(t, r), names, search_value) = "raise"

\* filter_config.get('field'): the metadata is held as a set, empty for None
Metadata(filter_config) == CHOOSE m \in filter_config.field : TRUE

\* the where_parts the reference branch appends for one field
ReferenceParts(field_name, filter_config) ==
    LET field_metadata == Metadata(filter_config) IN
    IF filter_config.field = {} \/ ~Truthy(field_metadata.reference_table_id)
    THEN << >>
    ELSE LET ref_table == get_table(field_metadata.reference_table_id[2]) IN
         IF ref_table = {} THEN << >>
         ELSE LET ref_table_name == (CHOOSE t \in ref_table : TRUE).name
                  names == SearchableRefFields(field_metadata.reference_table_id[2]) IN
              IF Len(names) = 0 THEN << >>
              ELSE LET matching_refs == RefRecords(store[Fold(ref_table_name)], names,
                                                   filter_config.value) IN
                   IF Len(matching_refs) > 0
                   THEN << WherePart("IN", field_name, MatchingIds(matching_refs)) >>
                   ELSE << WherePart("1 = 0", field_name, NULL) >>

\* the reference branch raises for this filter
ReferenceRaises(filter_config) ==
    LET field_metadata == Metadata(filter_config) IN
    /\ filter_config.field # {}
    /\ Truthy(field_metadata.reference_table_id)
    /\ get_table(field_metadata.reference_table_id[2]) # {}
    /\ Len(SearchableRefFields(field_metadata.reference_table_id[2])) > 0
    /\ RefQueryFails((CHOOSE t \in get_table(field_metadata.reference_table_id[2]) : TRUE).name,
                     SearchableRefFields(field_metadata.reference_table_id[2]),
                     filter_config.value)

\* the where_parts one (field_name, filter_config) item appends
PartsOf(field_name, filter_config) ==
    LET filter_type == filter_config.type IN
    CASE filter_type = "text" ->
            << WherePart("LIKE", field_name, Contains(filter_config.value)) >>
      [] filter_type = "number_range" ->
            (IF IsNull(filter_config.min) THEN << >>
             ELSE << WherePart(">=", field_name, filter_config.min) >>)
            \o (IF IsNull(filter_config.max) THEN << >>
                ELSE << WherePart("<=", field_name, filter_config.max) >>)
      [] filter_type = "date_range" ->
            (IF IsNull(filter_config.from) THEN << >>
             ELSE << WherePart(">=", field_name, filter_config.from) >>)
            \o (IF IsNull(filter_config.to) THEN << >>
                ELSE << WherePart("<=", field_name, filter_config.to) >>)
      [] filter_type = "boolean" ->
            \* 1 if filter_config['value'] else 0
            << WherePart("=", field_name, Bind(filter_config.value[2])) >>
      [] filter_type = "dropdown" ->
            << WherePart("=", field_name, filter_config.value) >>
      [] filter_type = "reference" -> ReferenceParts(field_name, filter_config)
      [] OTHER -> << >>

RECURSIVE WhereParts(_)
\* for field_name, filter_config in filters.items(), filters being the
\* sequence of the dict's items
WhereParts(filters) ==
    IF Len(filters) = 0 THEN << >>
    ELSE PartsOf(Head(filters).field_name, Head(filters).filter_config)
         \o WhereParts(Tail(filters))

\* one where part for one record of storage table t
PartHolds(t, rec, part) ==
    CASE part.op = "LIKE" -> NormalizedLike(rec[part.column], part.param)
      [] part.op = "IN" ->
            \E p \in part.param : Compare("=", t.types[part.column], rec[part.column], p)
      [] part.op = "1 = 0" -> FALSE
      [] OTHER -> Compare(part.op, t.types[part.column], rec[part.column], part.param)

RECURSIVE AllPartsHold(_, _, _)
\* where_parts joined by AND, evaluated left to right for one record: "yes",
\* "no", or "raise" when NORMALIZE_SEARCH raises before a part is false
AllPartsHold(t, rec, parts) ==
    IF Len(parts) = 0 THEN "yes"
    ELSE IF Head(parts).op = "LIKE" /\ NormalizeRaises(rec[Head(parts).column]) THEN "raise"
    ELSE IF ~PartHolds(t, rec, Head(parts)) THEN "no"
    ELSE AllPartsHold(t, rec, Tail(parts))

filter_records(table_name, filters) ==
    /\ Idle
    /\ LET Outcome(status, ret) ==
               CallWith("filter_records", table_name, 0, NoName, filters, status, ret)
           t == store[Fold(table_name)]
           where_parts == WhereParts(filters)
           verdict == [r \in DOMAIN t.rows |-> AllPartsHold(t, Record(t, r), where_parts)] IN
       last' = IF \E i \in 1 .. Len(filters) :
                     /\ filters[i].filter_config.type = "reference"
                     /\ ReferenceRaises(filters[i].filter_config)
               THEN \* the query on the referenced table does not compile
                    Outcome("OperationalError", << >>)
               ELSE IF ~Parsable(table_name) \/ ~StorageExists(table_name)
               THEN Outcome("OperationalError", << >>)
               ELSE IF \E i \in 1 .. Len(where_parts) :
                          /\ where_parts[i].op # "1 = 0"
                          /\ \/ ~Parsable(where_parts[i].column)
                             \/ where_parts[i].column \notin TableInfo(table_name)
               THEN \* no such column, or a name that does not parse
                    Outcome("OperationalError", << >>)
               ELSE IF \E r \in DOMAIN t.rows : verdict[r] = "raise"
               THEN \* user-defined function raised exception
                    Outcome("OperationalError", << >>)
               ELSE Outcome("ok", SelectRecords(t, { r \in DOMAIN t.rows : verdict[r] = "yes" }))
    /\ UNCHANGED <<tables, fields, store, seqTables, seqFields, inTx, disk, created, now, files, seen>>

\* ------------------------------------------- get_records, count_records
\* the where clause is a sequence of where parts joined by AND, empty for
\* None; it compiles when the table exists and has the columns it names
WhereCompiles(table_name, where_clause) ==
    /\ Parsable(table_name)
    /\ StorageExists(table_name)
    /\ \A i \in 1 .. Len(where_clause) :
          \/ where_clause[i].op = "1 = 0"
          \/ Parsable(where_clause[i].column) /\ where_clause[i].column \in TableInfo(table_name)

\* the ids of the rows of storage table t the where clause keeps
Kept(t, where_clause) ==
    { r \in DOMAIN t.rows : AllPartsHold(t, Record(t, r), where_clause) = "yes" }

\* NORMALIZE_SEARCH raises on a row the where clause is evaluated on
WhereRaises(t, where_clause) ==
    \E r \in DOMAIN t.rows : AllPartsHold(t, Record(t, r), where_clause) = "raise"

PageNoOffset(records, limit, offset) ==
    IF Truthy(limit) THEN SubSeq(records, 1, IF limit[2] < Len(records) THEN limit[2] ELSE Len(records))
    ELSE records

\* if limit: query += f" LIMIT {limit} OFFSET {offset}", for limit >= 0 and
\* offset >= 0; limit is NULL for None
Page(records, limit, offset) ==
    IF Truthy(limit)
    THEN SubSeq(records, offset + 1,
                IF offset + limit[2] < Len(records) THEN offset + limit[2] ELSE Len(records))
    ELSE records

PageArgs(limit, offset, where_clause) ==
    [limit |-> limit, offset |-> offset, where_clause |-> where_clause]

\* get_records(table_name, limit, offset, where_clause=..., where_params=...)
\* with order_by and order_dir at their defaults
get_records(table_name, limit, offset, where_clause) ==
    /\ Idle
    /\ LET Outcome(status, ret) ==
               CallWith("get_records", table_name, 0, NoName,
                        PageArgs(limit, offset, where_clause), status, ret)
           t == store[Fold(table_name)] IN
       last' = IF ~WhereCompiles(table_name, where_clause) \/ WhereRaises(t, where_clause)
               THEN Outcome("OperationalError", << >>)
               ELSE Outcome("ok", Page(SelectRecords(t, Kept(t, where_clause)), limit, offset))
    /\ UNCHANGED <<tables, fields, store, seqTables, seqFields, inTx, disk, created, now, files, seen>>

\* SELECT COUNT(*) as count FROM table_name [WHERE ...]
count_records(table_name, where_clause) ==
    /\ Idle
    /\ LET Outcome(status, ret) ==
               CallWith("count_records", table_name, 0, NoName,
                        PageArgs(NULL, 0, where_clause), status, ret)
           t == store[Fold(table_name)] IN
       last' = IF ~WhereCompiles(table_name, where_clause) \/ WhereRaises(t, where_clause)
               THEN Outcome("OperationalError", 0)
               ELSE Outcome("ok", Cardinality(Kept(t, where_clause)))
    /\ UNCHANGED <<tables, fields, store, seqTables, seqFields, inTx, disk, created, now, files, seen>>

\* ------------------------------ RecordPreviewDialog.load_related_records
\* the (table, field) pairs the loops stop at: reference fields of any table
\* that point to table_id
ReferenceFields(table_id) ==
    { <<table, field>> \in get_all_tables \X fields :
        /\ field.table_id = table.id
        /\ field.field_type = "reference"
        /\ field.reference_table_id = Integer(table_id) }

\* one entry of related_data
Related(table, field, record_id) ==
    [source_table |-> table.name, source_table_id |-> table.id,
     field_name |-> field.name, record_id |-> record_id]

\* the dialog shows record record_id of table table_id; related_data is held
\* as the set of its entries
load_related_records(table_id, record_id) ==
    /\ Idle
    /\ LET Outcome(status, ret) ==
               CallWith("load_related_records", NoName, record_id, NoName,
                        [table_id |-> table_id], status, ret) IN
       last' = IF \E p \in ReferenceFields(table_id) : ~CanSelectWhere(store, p[1].name, p[2].name)
               THEN \* get_records raises: no such table or column
                    Outcome("OperationalError", {})
               ELSE Outcome("ok",
                            UNION { { Related(p[1], p[2], r) :
                                        r \in SelectWhere(store, p[1].name, p[2].name, record_id) } :
                                    p \in ReferenceFields(table_id) })
    /\ UNCHANGED <<tables, fields, store, seqTables, seqFields, inTx, disk, created, now, files, seen>>

\* ------------------------------------------- labels of referenced records
\* str(value), as characters
Str(v) ==
    IF IsText(v) THEN v[2]
    ELSE IF IsInteger(v) THEN DecimalText(v[2])
    ELSE << "N", "o", "n", "e" >>

\* f"ID: {record['id']}"
IdLabel(record) == << "I", "D", ":", " " >> \o Str(record[IdColumn])

\* record.get(field_name)
Get(record, field_name) ==
    IF field_name \in DOMAIN record THEN record[field_name] ELSE NULL

RECURSIVE FirstValue(_, _)
\* the values record holds for the fields, in their order: the first truthy
\* one of a field not named id, as a set
FirstValue(record, ref_fields) ==
    IF Len(ref_fields) = 0 THEN {}
    ELSE IF /\ Head(ref_fields).name # IdColumn
            /\ Truthy(Get(record, Head(ref_fields).name))
       THEN { Get(record, Head(ref_fields).name) }
    ELSE FirstValue(record, Tail(ref_fields))

\* the two loops over ref_fields and the fallback, which the three label
\* functions repeat line for line
AutoLabel(record, table_id) ==
    LET ref_fields == InOrder(get_fields(table_id))
        text_like == FirstValue(record,
                         SelectSeq(ref_fields,
                                   LAMBDA f : f.field_type \in { "text", "email", "phone", "url" }))
        any == FirstValue(record, ref_fields) IN
    IF text_like # {} THEN Str(CHOOSE v \in text_like : TRUE)
    ELSE IF any # {} THEN Str(CHOOSE v \in any : TRUE)
    ELSE IdLabel(record)

\* RecordView.get_reference_display_name(record, table_id)
RecordView_get_reference_display_name(record, table_id) == AutoLabel(record, table_id)

\* RecordView.format_field_value, reference branch, for the referenced
\* record found; display_field is NoName when the field names none
RecordView_format_field_value(ref_record, table_id, display_field) ==
    IF display_field # NoName /\ display_field \in DOMAIN ref_record
    THEN Str(ref_record[display_field])
    ELSE RecordView_get_reference_display_name(ref_record, table_id)

\* RecordDialog.get_record_display_name(record, table_id, display_field_name)
RecordDialog_get_record_display_name(record, table_id, display_field_name) ==
    IF display_field_name # NoName /\ Truthy(Get(record, display_field_name))
    THEN Str(Get(record, display_field_name))
    ELSE AutoLabel(record, table_id)

\* RecordPreviewDialog.get_reference_display_name(record, table_id, display_field_name)
RecordPreviewDialog_get_reference_display_name(record, table_id, display_field_name) ==
    IF display_field_name # NoName /\ Truthy(Get(record, display_field_name))
    THEN Str(Get(record, display_field_name))
    ELSE AutoLabel(record, table_id)

\* a caller labels record record_id of the table table_id
LabelArgs(table_id, display_field) == [table_id |-> table_id, display_field |-> display_field]

\* the label the caller named op computes
LabelOf(op, ref_record, table_id, display_field) ==
    CASE op = "format_field_value" ->
           RecordView_format_field_value(ref_record, table_id, display_field)
      [] op = "get_record_display_name" ->
           RecordDialog_get_record_display_name(ref_record, table_id, display_field)
      [] OTHER ->
           RecordPreviewDialog_get_reference_display_name(ref_record, table_id, display_field)

LabelCall(op, table_id, record_id, display_field) ==
    /\ Idle
    /\ \E ref_table \in get_table(table_id) :
          /\ Parsable(ref_table.name)
          /\ \E ref_record \in get_record(ref_table.name, record_id) :
                last' = CallWith(op, ref_table.name, record_id, NoName,
                                 LabelArgs(table_id, display_field), "ok",
                                 LabelOf(op, ref_record, table_id, display_field))
    /\ UNCHANGED <<tables, fields, store, seqTables, seqFields, inTx, disk, created, now, files, seen>>

format_field_value(table_id, record_id, display_field) ==
    LabelCall("format_field_value", table_id, record_id, display_field)

get_record_display_name(table_id, record_id, display_field) ==
    LabelCall("get_record_display_name", table_id, record_id, display_field)

get_reference_display_name(table_id, record_id, display_field) ==
    LabelCall("get_reference_display_name", table_id, record_id, display_field)

\* ------------------------------------------- StorageManager, RecordView
\* files is the set of record directories storage/table_name/record_id
\* that exist

\* StorageManager.save_file for a record the record dialog has saved:
\* get_record_dir makes the directory, the file is copied into it
save_file(table_name, record_id) ==
    /\ Idle
    /\ Fold(table_name) \in DOMAIN store
    /\ record_id \in DOMAIN store[Fold(table_name)].rows
    /\ files' = files \cup { <<table_name, record_id>> }
    /\ last' = Call("save_file", table_name, record_id, NoName, "ok", 0)
    /\ UNCHANGED <<tables, fields, store, seqTables, seqFields, inTx, disk, created, now, seen>>

\* if os.path.exists(record_dir): shutil.rmtree(record_dir)
delete_record_files(fs, table_name, record_id) == fs \ { <<table_name, record_id>> }

\* RecordView.delete_record on the selected row of the list, with the
\* reply to the confirmation question
RecordView_delete_record(table_name, record_id, reply) ==
    /\ Idle
    /\ Fold(table_name) \in DOMAIN store
    /\ record_id \in DOMAIN store[Fold(table_name)].rows
    /\ LET Outcome(status) ==
               CallWith("RecordView.delete_record", table_name, record_id, NoName,
                        [reply |-> reply], status, 0)
           table == { t \in tables : t.name = table_name } IN
       IF reply # "Yes"
       THEN /\ last' = Outcome("declined")
            /\ UNCHANGED <<tables, fields, store, seqTables, seqFields, inTx, disk, created, now, files, seen>>
       ELSE \* self.storage.delete_record_files, then self.db.delete_record
            /\ files' = delete_record_files(files, table_name, record_id)
            /\ IF table = {}
               THEN /\ last' = Outcome("ok")
                    /\ UNCHANGED <<tables, fields, store, seqTables, seqFields, inTx, disk, created, now, seen>>
               ELSE IF "get_tables" \notin DatabaseManagerMethods
               THEN /\ last' = Outcome("AttributeError")
                    /\ UNCHANGED <<tables, fields, store, seqTables, seqFields, inTx, disk, created, now, seen>>
               ELSE LET res == delete_record_rows(store, table_name, record_id) IN
                    /\ store' = res.s
                    /\ last' = Outcome(IF res.ok THEN "ok" ELSE "OperationalError")
                    /\ IF res.ok \/ res.s # store
                       THEN /\ inTx' = FALSE
                            /\ disk' = Snapshot(tables, fields, store', seqTables, seqFields)
                       ELSE UNCHANGED <<inTx, disk>>
                    /\ UNCHANGED <<tables, fields, seqTables, seqFields, created, now, seen>>

\* ------------------------------------------------------ close and reconnect
\* close() does not commit: what the open transaction holds is lost
Reopen ==
    /\ Idle
    /\ tables' = disk.tables
    /\ fields' = disk.fields
    /\ store' = disk.store
    /\ seqTables' = disk.seqTables
    /\ seqFields' = disk.seqFields
    /\ inTx' = FALSE
    /\ last' = Call("reopen", NoName, 0, NoName, "ok", 0)
    /\ seen' = [seen EXCEPT !.records = { p \in @ : Named(disk.tables, p[1]) }]
    /\ UNCHANGED <<disk, created, now, files>>

\* time passes between two calls
Tick ==
    /\ Idle
    /\ now < MaxClock
    /\ now' = now + 1
    /\ UNCHANGED <<tables, fields, store, seqTables, seqFields, inTx, disk, last, created, files, seen>>

RefTableIds == { 1 }

\* the parameters of add_field after table_id and name, the keyword
\* parameters at their defaults
DefaultArgs(display_name, field_type) ==
    [display_name |-> display_name, field_type |-> field_type,
     is_required |-> FALSE, is_unique |-> FALSE, show_in_list |-> TRUE,
     options |-> NULL, reference_table_id |-> NULL,
     reference_display_field |-> NULL, position |-> 0, cascade_delete |-> FALSE]

ReferenceArgs(reference_table_id, cascade_delete) ==
    [DefaultArgs("R", "reference") EXCEPT
        !.reference_table_id = Integer(reference_table_id),
        !.cascade_delete = cascade_delete]

MultiReferenceArgs(reference_table_id, cascade_delete) ==
    [ReferenceArgs(reference_table_id, cascade_delete) EXCEPT
        !.display_name = "M", !.field_type = "multireference"]

RECURSIVE JoinIds(_)
\* ", ".join of the decimal texts of a non-empty sequence of ids
JoinIds(ids) ==
    IF Len(ids) = 1 THEN DecimalText(ids[1])
    ELSE JoinIds(SubSeq(ids, 1, Len(ids) - 1)) \o <<",", " ">> \o DecimalText(ids[Len(ids)])

\* json.dumps of a list of ids
json_dumps(ids) ==
    IF Len(ids) = 0 THEN <<"[", "]">> ELSE <<"[">> \o JoinIds(ids) \o <<"]">>

\* RecordDialog.get_field_value of a multireference widget with the ids
\* selected: json.dumps(selected) if selected else None
get_field_value(selected) ==
    IF Len(selected) = 0 THEN NULL ELSE Text(json_dumps(selected))

FieldSpecs ==
    { DefaultArgs("F", "text") }
    \cup { ReferenceArgs(r, c) : r \in RefTableIds, c \in BOOLEAN }

\* data that sets the field, the key, both or neither to 1
InsertData == UNION { [S -> { Integer(1) }] : S \in SUBSET { <<"f">>, IdColumn } }

Next ==
    \/ \E name \in TableNames : create_table(name)
    \/ \E table_id \in TableIds : delete_table(table_id)
    \/ \E table_id \in TableIds, name \in FieldNames, spec \in FieldSpecs :
          add_field(table_id, name, spec)
    \/ \E field_id \in FieldIds : delete_field(field_id)
    \/ \E table_name \in TableNames, data \in InsertData :
          insert_record(table_name, data)
    \/ \E table_name \in TableNames, record_id \in RowIds :
          delete_record(table_name, record_id)
    \/ Reopen
    \/ Return

Spec == Init /\ [][Next]_vars

\* The schema operations alone (create_table, delete_table, add_field,
\* delete_field, reconnect), every field a text field with default flags.
SchemaFieldSpecs == { DefaultArgs("F", "text") }

NextSchema ==
    \/ \E name \in TableNames : create_table(name)
    \/ \E table_id \in TableIds : delete_table(table_id)
    \/ \E table_id \in TableIds, name \in FieldNames, spec \in SchemaFieldSpecs :
          add_field(table_id, name, spec)
    \/ \E field_id \in FieldIds : delete_field(field_id)
    \/ Reopen
    \/ Return

SpecSchema == Init /\ [][NextSchema]_vars

\* The schema operations over tables that hold records: fields are added
\* under one well-formed name and rows are inserted with storage defaults.
NextSchemaRows ==
    \/ \E name \in TableNames : create_table(name)
    \/ \E table_id \in TableIds : delete_table(table_id)
    \/ \E table_id \in TableIds, spec \in SchemaFieldSpecs :
          add_field(table_id, <<"f">>, spec)
    \/ \E field_id \in FieldIds : delete_field(field_id)
    \/ \E table_name \in TableNames : insert_record(table_name, EmptyRows)
    \/ Reopen
    \/ Return

SpecSchemaRows == Init /\ [][NextSchemaRows]_vars

\* Field descriptions that differ from the defaults in every parameter.
RichFieldSpecs ==
    { DefaultArgs("F", "text"),
      [display_name |-> "N", field_type |-> "number", is_required |-> TRUE,
       is_unique |-> TRUE, show_in_list |-> FALSE, options |-> Text(<<"o">>),
       reference_table_id |-> NULL, reference_display_field |-> NULL,
       position |-> 1, cascade_delete |-> FALSE],
      [display_name |-> "R", field_type |-> "reference", is_required |-> FALSE,
       is_unique |-> FALSE, show_in_list |-> TRUE, options |-> NULL,
       reference_table_id |-> Integer(1),
       reference_display_field |-> Text(<<"f">>),
       position |-> 2, cascade_delete |-> TRUE] }

\* table names that are well-formed identifiers and differ beyond case
PlainTableNames == { <<"a">>, <<"b">> }

\* Defining fields: tables are created, fields added under every
\* description and deleted again.
NextFields ==
    \/ \E name \in PlainTableNames : create_table(name)
    \/ \E table_id \in TableIds, name \in FieldNames, spec \in RichFieldSpecs :
          add_field(table_id, name, spec)
    \/ \E field_id \in FieldIds : delete_field(field_id)
    \/ Return

SpecFields == Init /\ [][NextFields]_vars

\* Values of each storage class, among them text that reads as a number.
RecordValues == { NULL, Integer(1), Text(<<"1">>), Text(<<"a">>) }

\* a text field and a number field: columns of TEXT and of REAL affinity
RecordFieldSpecs == { DefaultArgs("F", "text"), DefaultArgs("N", "number") }

RecordData == UNION { [S -> RecordValues] : S \in { {}, { <<"f">> } } }

\* data that also supplies the key and both timestamps
WithSystemColumns(data) ==
    [k \in DOMAIN data \cup SystemColumns |->
        IF k \in DOMAIN data THEN data[k]
        ELSE IF k = IdColumn THEN Integer(2) ELSE Text(<<"a">>)]

\* Inserting records: one table gets a text or a number field, and rows are
\* inserted with values of every storage class while the clock advances.
NextInserts ==
    \/ create_table(<<"a">>)
    \/ \E spec \in RecordFieldSpecs : add_field(1, <<"f">>, spec)
    \/ \E data \in RecordData :
          \/ insert_record(<<"a">>, data)
          \/ insert_record(<<"a">>, WithSystemColumns(data))
    \/ Tick
    \/ Return

SpecInserts == Init /\ [][NextInserts]_vars

\* Updating records: rows are inserted with storage defaults and updated,
\* by ids that exist and ids that do not, while the clock advances.
NextUpdates ==
    \/ create_table(<<"a">>)
    \/ \E spec \in RecordFieldSpecs : add_field(1, <<"f">>, spec)
    \/ insert_record(<<"a">>, EmptyRows)
    \/ \E record_id \in RowIds, data \in RecordData :
          \/ update_record(<<"a">>, record_id, data)
          \/ update_record(<<"a">>, record_id, WithSystemColumns(data))
    \/ Tick
    \/ Return

SpecUpdates == Init /\ [][NextUpdates]_vars

\* Searching records: one table with text fields f and g; rows hold text in
\* either case, with and without accents, the empty text and NULL; terms
\* include the empty term, accented and capital letters, and % and _.
SearchFieldNames == { <<"f">>, <<"g">> }
SearchValues ==
    { NULL, Text(<< >>), Text(<<"a">>), Text(<<"b">>), Text(<<"A_acute", "b">>) }
SearchData == [{ <<"f">> } -> SearchValues] \cup [{ <<"g">> } -> { Text(<<"a">>) }]
SearchFieldLists == { << >>, << <<"f">> >>, << <<"f">>, <<"g">> >> }
SearchTerms == { << >>, <<"a">>, <<"A">>, <<"a_acute">>, <<"a", "b">>, <<"%">>, <<"_">> }

NextSearch ==
    \/ create_table(<<"a">>)
    \/ \E name \in SearchFieldNames : add_field(1, name, DefaultArgs("F", "text"))
    \/ \E data \in SearchData : insert_record(<<"a">>, data)
    \/ \E names \in SearchFieldLists, search_term \in SearchTerms :
          search_records(<<"a">>, names, search_term)
    \/ Return

SpecSearch == Init /\ [][NextSearch]_vars

\* Filtering records: one table with a numeric column n (a number or a
\* boolean field) and a text column t (a date or a dropdown field); dates
\* are stood for by short digit strings, which order as text and not as
\* numbers ("10" before "2").
FilterFieldSpecs ==
    { << <<"n">>, DefaultArgs("N", "number") >>, << <<"n">>, DefaultArgs("N", "boolean") >>,
      << <<"t">>, DefaultArgs("T", "date") >>, << <<"t">>, DefaultArgs("T", "dropdown") >> }
FilterNumbers == { Integer(0), Integer(1), Integer(15), Integer(25) }
FilterTexts == { Text(<<"1">>), Text(<<"1", "0">>), Text(<<"2">>) }
FilterData ==
    [{ <<"n">> } -> FilterNumbers] \cup [{ <<"t">> } -> FilterTexts]
    \cup { [c \in { <<"n">>, <<"t">> } |-> IF c = <<"n">> THEN v ELSE Text(<<"1", "0">>)] :
             v \in { Integer(15), Integer(25) } }

\* one item of the filters dict
FilterItem(field_name, filter_config) ==
    [field_name |-> field_name, filter_config |-> filter_config]

NumberFilters ==
    { [type |-> "number_range", min |-> lo, max |-> hi] :
        lo \in { NULL, Integer(10) }, hi \in { NULL, Integer(20) } }
BooleanFilters == { [type |-> "boolean", value |-> Bool(b)] : b \in BOOLEAN }
DateFilters ==
    { [type |-> "date_range", from |-> lo, to |-> hi] :
        lo \in { NULL, Text(<<"1", "0">>) }, hi \in { NULL, Text(<<"2">>) } }
DropdownFilters == { [type |-> "dropdown", value |-> Text(<<"1", "0">>)] }

FilterSpecs ==
    { << >> }
    \cup { << FilterItem(<<"n">>, c) >> : c \in NumberFilters \cup BooleanFilters }
    \cup { << FilterItem(<<"t">>, c) >> : c \in DateFilters \cup DropdownFilters }
    \cup { << FilterItem(<<"n">>, c), FilterItem(<<"t">>, d) >> :
             c \in { [type |-> "number_range", min |-> Integer(10), max |-> Integer(20)],
                     [type |-> "boolean", value |-> Bool(TRUE)] },
             d \in { [type |-> "date_range", from |-> Text(<<"1", "0">>), to |-> Text(<<"2">>)] }
                   \cup DropdownFilters }

NextFilter ==
    \/ create_table(<<"a">>)
    \/ \E spec \in FilterFieldSpecs : add_field(1, spec[1], spec[2])
    \/ \E data \in FilterData : insert_record(<<"a">>, data)
    \/ \E filters \in FilterSpecs : filter_records(<<"a">>, filters)
    \/ Return

SpecFilter == Init /\ [][NextFilter]_vars

\* Filtering by reference: one table whose reference field r points to the
\* table itself and whose text field f is what a reference filter searches;
\* each of the two fields may be missing.
ReferenceData ==
    [{ <<"f">> } -> { Text(<<"a">>), Text(<<"b">>) }]
    \cup [{ <<"r">> } -> { Integer(1), Integer(2) }]
    \cup { [c \in { <<"f">>, <<"r">> } |-> IF c = <<"f">> THEN Text(<<"b">>) ELSE Integer(1)] }
ReferenceTerms == { <<"a">>, <<"x">> }

\* the filter FilterDialog builds for a reference field: the term and the
\* metadata of a field of the table, or no metadata
ReferenceFilters ==
    { << FilterItem(<<"r">>, [type |-> "reference", value |-> term, field |-> meta]) >> :
        term \in ReferenceTerms, meta \in { {} } \cup { { f } : f \in get_fields(1) } }

NextReference ==
    \/ create_table(<<"a">>)
    \/ add_field(1, <<"f">>, DefaultArgs("F", "text"))
    \/ add_field(1, <<"r">>, ReferenceArgs(1, FALSE))
    \/ \E data \in ReferenceData : insert_record(<<"a">>, data)
    \/ \E filters \in ReferenceFilters : filter_records(<<"a">>, filters)
    \/ Return

SpecReference == Init /\ [][NextReference]_vars

\* Field types: fields of every type of config.FIELD_TYPES, and of types it
\* does not list, are added to one table, some types more than once.
UnknownFieldTypes == { "", "geo", "TEXT" }
TypeFieldNames == { <<"f">>, <<"g">> }

NextTypes ==
    \/ create_table(<<"a">>)
    \/ \E name \in TypeFieldNames, field_type \in FIELD_TYPES \cup UnknownFieldTypes :
          add_field(1, name, DefaultArgs("F", field_type))
    \/ Return

SpecTypes == Init /\ [][NextTypes]_vars

\* Cascading deletes: two tables whose reference fields f point to either
\* table, with and without cascade_delete; rows reference record 1 or
\* nothing, so that records of the two tables can reference each other.
CascadeTableIds == { 1, 2 }
CascadeData == { EmptyRows } \cup [{ <<"f">> } -> { Integer(1) }]

NextCascade ==
    \/ \E name \in PlainTableNames : create_table(name)
    \/ \E table_id \in CascadeTableIds, reference_table_id \in CascadeTableIds, cascade_delete \in BOOLEAN :
          add_field(table_id, <<"f">>, ReferenceArgs(reference_table_id, cascade_delete))
    \/ \E name \in PlainTableNames, data \in CascadeData : insert_record(name, data)
    \/ \E name \in PlainTableNames, record_id \in RowIds : delete_record(name, record_id)
    \/ \E table_id \in CascadeTableIds, record_id \in RowIds :
          load_related_records(table_id, record_id)
    \/ Return

SpecCascade == Init /\ [][NextCascade]_vars

\* Lists of references: two tables whose multireference fields f point to
\* either table, with and without cascade_delete; a record holds the list of
\* the ids selected in the record dialog, or nothing.
Selections == { << >>, <<1>>, <<1, 2>> }
MultiData == { EmptyRows } \cup [{ <<"f">> } -> { get_field_value(sel) : sel \in Selections }]

NextMulti ==
    \/ \E name \in PlainTableNames : create_table(name)
    \/ \E table_id \in CascadeTableIds, reference_table_id \in CascadeTableIds, cascade_delete \in BOOLEAN :
          add_field(table_id, <<"f">>, MultiReferenceArgs(reference_table_id, cascade_delete))
    \/ \E name \in PlainTableNames, data \in MultiData : insert_record(name, data)
    \/ \E name \in PlainTableNames, record_id \in RowIds : delete_record(name, record_id)
    \/ Return

SpecMulti == Init /\ [][NextMulti]_vars

\* Attachments: records of two tables get a directory of files, and the
\* list view deletes records, the question answered either way.
Replies == { "Yes", "No" }

NextFiles ==
    \/ \E name \in PlainTableNames : create_table(name)
    \/ \E name \in PlainTableNames : insert_record(name, EmptyRows)
    \/ \E name \in PlainTableNames, record_id \in RowIds : save_file(name, record_id)
    \/ \E name \in PlainTableNames, record_id \in RowIds, reply \in Replies :
          RecordView_delete_record(name, record_id, reply)
    \/ Return

SpecFiles == Init /\ [][NextFiles]_vars

\* Labels: one table with a text field f and a number field g, in either
\* order; records hold text, the empty text, a number, 0 or nothing in them,
\* and each of the three callers labels a record with f, g or no field
\* preferred.
LabelFieldSpecs ==
    { << <<"f">>, DefaultArgs("F", "text") >>, << <<"g">>, DefaultArgs("G", "number") >> }
LabelData ==
    { EmptyRows }
    \cup [{ <<"f">> } -> { Text(<< >>), Text(<<"a">>) }]
    \cup [{ <<"g">> } -> { Integer(0), Integer(7) }]
    \cup { [c \in { <<"f">>, <<"g">> } |-> IF c = <<"f">> THEN Text(<<"a">>) ELSE Integer(7)] }
DisplayFields == { NoName, <<"f">>, <<"g">> }

NextLabels ==
    \/ create_table(<<"a">>)
    \/ \E spec \in LabelFieldSpecs : add_field(1, spec[1], spec[2])
    \/ \E data \in LabelData : insert_record(<<"a">>, data)
    \/ \E record_id \in RowIds, display_field \in DisplayFields :
          format_field_value(1, record_id, display_field)
    \/ \E record_id \in RowIds, display_field \in DisplayFields :
          get_record_display_name(1, record_id, display_field)
    \/ \E record_id \in RowIds, display_field \in DisplayFields :
          get_reference_display_name(1, record_id, display_field)
    \/ Return

SpecLabels == Init /\ [][NextLabels]_vars

\* Pages: one table with a text field; records are listed whole and by
\* pages of one or two records from every offset, with and without a where
\* clause, and counted.
PageData == { EmptyRows } \cup [{ <<"f">> } -> { Text(<<"a">>) }]
Limits == { NULL, Integer(0), Integer(1), Integer(2) }
Offsets == 0 .. MaxRowSeq + 1
WhereClauses == { << >>, << WherePart("=", <<"f">>, Text(<<"a">>)) >> }

NextPages ==
    \/ create_table(<<"a">>)
    \/ add_field(1, <<"f">>, DefaultArgs("F", "text"))
    \/ \E data \in PageData : insert_record(<<"a">>, data)
    \/ \E limit \in Limits, offset \in Offsets, where_clause \in WhereClauses :
          get_records(<<"a">>, limit, offset, where_clause)
    \/ \E where_clause \in WhereClauses : count_records(<<"a">>, where_clause)
    \/ Return

SpecPages == Init /\ [][NextPages]_vars

\* Fields of a table that holds records: the table is created and deleted,
\* two fields are added and deleted, rows are inserted with and without a
\* value.
NextFieldRows ==
    \/ create_table(<<"a">>)
    \/ \E table_id \in TableIds : delete_table(table_id)
    \/ \E table_id \in TableIds, name \in { <<"f">>, <<"g">> },
          spec \in SchemaFieldSpecs : add_field(table_id, name, spec)
    \/ \E field_id \in FieldIds : delete_field(field_id)
    \/ \E data \in RecordData : insert_record(<<"a">>, data)
    \/ Return

SpecFieldRows == Init /\ [][NextFieldRows]_vars

\* ================================================================= claims
NameInUse(name) == \E t \in tables : t.name = name
IdInUse(table_id) == \E t \in tables : t.id = table_id
Raised(call) == call.status \in Errors
RecordIn(s, table_name, record_id) ==
    Fold(table_name) \in DOMAIN s /\ record_id \in DOMAIN s[Fold(table_name)].rows

\* the records that cascade-reference record_id of table_name directly
Dependents(table_name, record_id) ==
    UNION { { <<e.table_name, x>> :
              x \in IF CanSelectWhere(store, e.table_name, e.column)
                    THEN SelectWhere(store, e.table_name, e.column, record_id)
                    ELSE {} } :
            e \in UNION { CascadeFields(t.id) : t \in { u \in tables : u.name = table_name } } }

RECURSIVE Doomed(_)
\* the records reachable from a set of records through cascading references
Doomed(S) ==
    LET N == S \cup UNION { Dependents(p[1], p[2]) : p \in S } IN
    IF N = S THEN S ELSE Doomed(N)

\* C1: a delete of an existing record of a registered table removes the
\* record and every record that cascade-references it, directly or through
\* other deleted records.
C1_DeleteCascades ==
    [][(/\ last'.op = "delete_record"
        /\ NameInUse(last'.tname)
        /\ RecordIn(store, last'.tname, last'.id))
       => \A p \in Doomed({ <<last'.tname, last'.id>> }) :
             ~RecordIn(store', p[1], p[2])]_vars

\* C2: when a reference field without cascade_delete targets the table and no
\* cascading field does, a delete removes the row (T, r) and nothing else:
\* the referencing records stay as they are, dangling id included.
C2_NonCascadeDeleteFramed ==
    [][(/\ last'.op = "delete_record"
        /\ RecordIn(store, last'.tname, last'.id)
        /\ \E t \in tables, f \in fields :
              /\ t.name = last'.tname
              /\ f.field_type = "reference"
              /\ f.reference_table_id = Integer(t.id)
              /\ ~Truthy(f.cascade_delete)
        /\ Doomed({ <<last'.tname, last'.id>> }) = { <<last'.tname, last'.id>> })
       => store' = DeleteRow(store, last'.tname, last'.id)]_vars

\* C3: create_table with a name that a Table Definition already uses raises
\* and changes neither the catalog nor the storage, in the connection's view
\* and on disk, so no later commit can carry anything of the failed call.
C3_DuplicateCreateNoMutation ==
    [][(last'.op = "create_table" /\ NameInUse(last'.tname))
       => /\ Raised(last')
          /\ UNCHANGED <<tables, fields, store, seqTables, seqFields, disk>>]_vars

C3_Witness ==
    /\ last.op = "create_table"
    /\ last.status = "IntegrityError"
    /\ NameInUse(last.tname)

\* C4: when create_table fails while provisioning the storage table, no Table
\* Definition with that name exists afterwards, and every Table Definition
\* in the connection's view or committed to disk is one a create_table call
\* returned.
C4_CreateAtomic ==
    /\ (last.op = "create_table" /\ last.status = "OperationalError")
          => ~NameInUse(last.tname)
    /\ \A t \in tables \cup disk.tables : t.id \in created

\* C5: every Table Definition has a backing storage table of its own, named
\* by its internal name, with the columns id, created_at, updated_at and one
\* column per Field Definition of the table.
C5_CatalogMatchesStorage ==
    /\ \A t \in tables :
          /\ StorageExists(t.name)
          /\ SystemColumns \subseteq TableInfo(t.name)
          /\ \A f \in get_fields(t.id) : f.name \in TableInfo(t.name)
    /\ \A t1, t2 \in tables : t1 # t2 => Fold(t1.name) # Fold(t2.name)

\* C6: after a successful create_table the listing holds exactly one Table
\* Definition with that name, and it carries the returned id; after
\* delete_table of a table that create_table returned, the listing holds
\* none with that id or that name.
C6_CreateListDelete ==
    [][/\ (last'.op = "create_table" /\ last'.status = "ok")
          => /\ Cardinality({ t \in get_all_tables' : t.name = last'.tname }) = 1
             /\ \A t \in get_all_tables' : t.name = last'.tname => t.id = last'.ret
       /\ (last'.op = "delete_table" /\ last'.id \in created /\ IdInUse(last'.id))
          => /\ ~Raised(last')
             /\ \A t \in get_all_tables' :
                   /\ t.id # last'.id
                   /\ \A u \in tables : u.id = last'.id => t.name # u.name]_vars

C6_Witness ==
    /\ last.op = "delete_table"
    /\ last.status = "ok"
    /\ last.id \in created
    /\ get_all_tables # {}

\* C7: delete_table of an existing Table Definition removes the definition
\* and its Field Definitions, drops its storage table, and leaves every other
\* Table Definition, its fields and its storage table as they were.
C7_DeleteTableFramed ==
    [][(last'.op = "delete_table" /\ IdInUse(last'.id))
       => /\ tables' = { t \in tables : t.id # last'.id }
          /\ fields' = { f \in fields : f.table_id # last'.id }
          /\ \A t \in tables : t.id = last'.id => Fold(t.name) \notin DOMAIN store'
          /\ \A t \in tables : (t.id # last'.id /\ StorageExists(t.name))
                => /\ Fold(t.name) \in DOMAIN store'
                   /\ store'[Fold(t.name)] = store[Fold(t.name)]]_vars

\* C8: delete_table of an id that names no Table Definition raises nothing
\* and leaves the catalog, the storage tables and their records unchanged.
C8_DeleteUnknownTableNoOp ==
    [][(last'.op = "delete_table" /\ ~IdInUse(last'.id))
       => /\ ~Raised(last')
          /\ UNCHANGED <<tables, fields, store, seqTables, seqFields, disk>>]_vars

C8_Witness ==
    /\ last.op = "delete_table"
    /\ last.status = "early_return"
    /\ tables # {}
    /\ store # EmptyStore

C10_FieldNameUnique ==
    /\ [](\A f, g \in fields : (f.table_id = g.table_id /\ f.name = g.name) => f = g)
    /\ [][(/\ last'.op = "add_field"
           /\ \E f \in fields : f.table_id = last'.id /\ f.name = last'.fname)
          => /\ Raised(last')
             /\ UNCHANGED <<tables, fields, store, seqTables, seqFields, disk>>]_vars

C10_Witness ==
    /\ last.op = "add_field"
    /\ last.status = "IntegrityError"
    /\ \E f \in fields : f.table_id = last.id /\ f.name = last.fname

\* what Python's == says of a supplied bool and the integer read back
SameFlag(supplied, returned) == returned = Integer(IF supplied THEN 1 ELSE 0)

\* the Field Definition f carries the values the add_field call supplied
AsSupplied(f, call) ==
    /\ f.name = call.fname
    /\ f.table_id = call.id
    /\ f.display_name = call.args.display_name
    /\ f.field_type = call.args.field_type
    /\ SameFlag(call.args.is_required, f.is_required)
    /\ SameFlag(call.args.is_unique, f.is_unique)
    /\ SameFlag(call.args.show_in_list, f.show_in_list)
    /\ SameFlag(call.args.cascade_delete, f.cascade_delete)
    /\ f.options = call.args.options
    /\ f.reference_table_id = call.args.reference_table_id
    /\ f.reference_display_field = call.args.reference_display_field
    /\ f.position = call.args.position

\* C11: after an add_field that returned normally on an existing table,
\* get_fields of that table holds exactly one Field Definition of that name,
\* and its name, display name, type, flags, options, reference table,
\* reference display field and position are the values supplied.
C11_AddFieldThenListFields ==
    [][(last'.op = "add_field" /\ last'.status = "ok")
       => /\ \E f \in SelectFields(fields', last'.id) : f.name = last'.fname
          /\ \A f \in SelectFields(fields', last'.id) :
                f.name = last'.fname => AsSupplied(f, last')]_vars

C11_Witness ==
    /\ last.op = "add_field"
    /\ last.status = "ok"
    /\ last.args.is_required
    /\ last.args.position = 1
    /\ \E f \in get_fields(last.id) : AsSupplied(f, last)

\* the storage table behind table_id has a column of exactly this name
ColumnExists(table_id, name) ==
    \E t \in tables : /\ t.id = table_id
                      /\ StorageExists(t.name)
                      /\ name \in store[Fold(t.name)].cols

\* C12 (as stated): add_field for a name whose storage column already exists
\* does not raise, leaves the storage columns as they are, and get_fields
\* then shows exactly one Field Definition of that name.
C12_ExistingColumnNeverRaises ==
    [][(last'.op = "add_field" /\ ColumnExists(last'.id, last'.fname))
       => /\ ~Raised(last')
          /\ store' = store
          /\ Cardinality({ f \in SelectFields(fields', last'.id) :
                              f.name = last'.fname }) = 1]_vars

\* C12 (amended): add_field for a name whose storage column already exists
\* and which no Field Definition of the table carries (a field re-added
\* after delete_field) returns normally, leaves the storage columns and rows
\* as they are, and get_fields then shows exactly one Field Definition of
\* that name.
C12_ReAddAfterDeleteField ==
    [][(/\ last'.op = "add_field"
        /\ ColumnExists(last'.id, last'.fname)
        /\ UniqueFieldName(last'.id, last'.fname))
       => /\ last'.status = "ok"
          /\ store' = store
          /\ Cardinality({ f \in SelectFields(fields', last'.id) :
                              f.name = last'.fname }) = 1]_vars

\* the only table ever created holds, as its only Field Definition, the
\* second one ever added: the first, of the same name, was deleted
C12_Witness ==
    /\ last.op = "add_field"
    /\ last.status = "ok"
    /\ seqTables = 1
    /\ seqFields = 2
    /\ last.id \in created
    /\ ColumnExists(last.id, last.fname)
    /\ \E f \in fields : fields = { f } /\ f.id = 2 /\ f.name = last.fname

\* C13: delete_field removes the Field Definition of that id and nothing
\* else: every other Field Definition, every Table Definition, every storage
\* table, its columns and the values of its records stay as they are; and no
\* operation takes a column away from a storage table that stays.
C13_DeleteFieldKeepsStorage ==
    [][/\ last'.op = "delete_field"
          => /\ fields' = { f \in fields : f.id # last'.id }
             /\ UNCHANGED <<tables, store>>
       /\ \A k \in DOMAIN store \cap DOMAIN store' :
             store[k].cols \subseteq store'[k].cols]_vars

\* a field was deleted: its column still holds a value, and another Field
\* Definition of the table is still there
C13_Witness ==
    /\ last.op = "delete_field"
    /\ \E t \in tables :
          /\ get_fields(t.id) # {}
          /\ StorageExists(t.name)
          /\ \E c \in UserColumns(TableInfo(t.name)) :
                /\ \A f \in get_fields(t.id) : f.name # c
                /\ \E r \in DOMAIN store[Fold(t.name)].rows :
                      ~IsNull(store[Fold(t.name)].rows[r][c])

\* C14: an add_field of a reference or multireference field whose
\* reference_table_id names no existing Table Definition creates no Field
\* Definition.
C14_ReferenceTargetExists ==
    [][(/\ last'.op = "add_field"
        /\ last'.args.field_type \in { "reference", "multireference" }
        /\ \A t \in tables : Integer(t.id) # last'.args.reference_table_id)
       => fields' = fields]_vars

\* ASCII letters, digits and the underscore, as far as the names here use them
IdentifierCharacters ==
    { "a", "b", "c", "d", "f", "g", "i", "x", "A", "B", "F", "X", "_" } \cup Digits

\* non-empty, identifier characters only, not starting with a digit
IdentifierSafe(name) ==
    /\ Len(name) > 0
    /\ \A i \in 1 .. Len(name) : name[i] \in IdentifierCharacters
    /\ name[1] \notin Digits

\* C15: create_table, and add_field on an existing table, given an internal
\* name that is not identifier-safe, raise and leave the catalog and the
\* storage unchanged, in the connection's view and on disk.
C15_UnsafeNameRejected ==
    [][(\/ last'.op = "create_table" /\ ~IdentifierSafe(last'.tname)
        \/ /\ last'.op = "add_field"
           /\ IdInUse(last'.id)
           /\ ~IdentifierSafe(last'.fname))
       => /\ Raised(last')
          /\ UNCHANGED <<tables, fields, store, seqTables, seqFields, disk>>]_vars

\* the records of a storage table of s, by id
RecordsOf(s, table_name) ==
    IF Fold(table_name) \in DOMAIN s THEN s[Fold(table_name)].rows ELSE EmptyRows

\* the columns a caller may set: all but id, created_at, updated_at
Supplied(data) == DOMAIN data \ SystemColumns

ColumnType(s, table_name, c) == s[Fold(table_name)].types[c]

AsStored(s, table_name, c, v) ==
    LET kind == Affinity(ColumnType(s, table_name, c)) IN
    IF kind = "TEXT" /\ IsInteger(v) THEN Text(DecimalText(v[2]))
    ELSE IF kind # "TEXT" /\ IsText(v) /\ LooksNumeric(v[2]) THEN Integer(NumberOf(v[2]))
    ELSE v

\* C17: update_record(T, id, data) keeps the set of record ids of T, and
\* leaves every record other than id as it was; of the record id it keeps
\* created_at (even when data supplies one), sets updated_at to the current
\* time (even when data supplies one), gives each supplied column the supplied
\* value as its column stores it, and keeps every other column. A call that
\* raises changes no record.
C17_UpdateFrame ==
    [][(last'.op = "update_record")
       => LET before == RecordsOf(store, last'.tname)
              after == RecordsOf(store', last'.tname) IN
          /\ DOMAIN after = DOMAIN before
          /\ last'.status # "ok" => after = before
          /\ last'.status = "ok" =>
                \A r \in DOMAIN before :
                   IF r # last'.id THEN after[r] = before[r]
                   ELSE /\ DOMAIN after[r] = DOMAIN before[r]
                        /\ after[r][CreatedAtColumn] = before[r][CreatedAtColumn]
                        /\ after[r][UpdatedAtColumn] = IsoFormat(now)
                        /\ \A c \in DOMAIN before[r] \ { CreatedAtColumn, UpdatedAtColumn } :
                              after[r][c] = IF c \in Supplied(last'.args)
                                            THEN AsStored(store, last'.tname, c, last'.args[c])
                                            ELSE before[r][c]]_vars

\* an update that supplies id, created_at, updated_at and a new value for a
\* field reaches one of two records, after the clock has advanced
C17_Witness ==
    /\ last.op = "update_record"
    /\ last.status = "ok"
    /\ SystemColumns \subseteq DOMAIN last.args
    /\ Supplied(last.args) # {}
    /\ now > 0
    /\ Cardinality(DOMAIN RecordsOf(store, last.tname)) = 2
    /\ last.id \in DOMAIN RecordsOf(store, last.tname)
    /\ \E c \in Supplied(last.args) :
          /\ ~IsNull(last.args[c])
          /\ RecordsOf(store, last.tname)[last.id][c] = AsStored(store, last.tname, c, last.args[c])
          /\ \E r \in DOMAIN RecordsOf(store, last.tname) :
                IsNull(RecordsOf(store, last.tname)[r][c])

\* needle occurs in text as a run of consecutive characters
IsSubstring(needle, text) ==
    \E i \in 1 .. Len(text) + 1 :
       /\ i + Len(needle) - 1 <= Len(text)
       /\ SubSeq(text, i, i + Len(needle) - 1) = needle

\* the records a sequence of records holds
Returned(ret) == { ret[i] : i \in 1 .. Len(ret) }

\* the records of table_name in storage s
AllRecords(s, table_name) ==
    { Record(s[Fold(table_name)], r) : r \in DOMAIN RecordsOf(s, table_name) }

\* C18: for a non-empty list of fields and a non-empty term, search_records
\* returns exactly the records of the table that hold, in at least one of the
\* given fields, a text whose normal form contains the normal form of the
\* term as a substring.
C18_SearchIsSubstringMatch ==
    [][(/\ last'.op = "search_records"
        /\ Len(last'.args.fields) > 0
        /\ Len(last'.args.search_term) > 0
        /\ StorageExists(last'.tname)
        /\ \A i \in 1 .. Len(last'.args.fields) : last'.args.fields[i] \in TableInfo(last'.tname))
       => /\ last'.status = "ok"
          /\ Returned(last'.ret)
               = { rec \in AllRecords(store, last'.tname) :
                     \E i \in 1 .. Len(last'.args.fields) :
                        LET v == rec[last'.args.fields[i]] IN
                        /\ IsText(v)
                        /\ IsSubstring(normalize_search(last'.args.search_term),
                                       normalize_search(v[2])) }]_vars

\* the predicate the filter of one field states for the value v of that field
Satisfies(v, filter_config) ==
    CASE filter_config.type = "number_range" ->
            /\ ~IsNull(filter_config.min) => IsInteger(v) /\ v[2] >= filter_config.min[2]
            /\ ~IsNull(filter_config.max) => IsInteger(v) /\ v[2] <= filter_config.max[2]
      [] filter_config.type = "date_range" ->
            /\ ~IsNull(filter_config.from) => IsText(v) /\ ~TextLess(v[2], filter_config.from[2])
            /\ ~IsNull(filter_config.to) => IsText(v) /\ ~TextLess(filter_config.to[2], v[2])
      [] filter_config.type = "boolean" ->
            v = IF filter_config.value[2] THEN Integer(1) ELSE Integer(0)
      [] filter_config.type = "dropdown" -> v = filter_config.value
      [] OTHER -> FALSE

RangeTypes == { "number_range", "date_range", "boolean", "dropdown" }

\* C19: filter_records with a spec made of number_range, date_range, boolean
\* and dropdown filters over columns of the table returns, in id order and
\* once each, exactly the records that satisfy the predicate of every field
\* of the spec: a range keeps the values at or above its lower bound and at
\* or below its upper bound, each bound optional (dates ordered as text);
\* boolean keeps the rows equal to 1 or to 0; dropdown the rows holding the
\* exact string. The empty spec returns every record.
C19_FilterIsConjunction ==
    [][(/\ last'.op = "filter_records"
        /\ StorageExists(last'.tname)
        /\ \A i \in 1 .. Len(last'.args) :
              /\ last'.args[i].filter_config.type \in RangeTypes
              /\ last'.args[i].field_name \in TableInfo(last'.tname))
       => /\ last'.status = "ok"
          /\ Returned(last'.ret)
               = { rec \in AllRecords(store, last'.tname) :
                     \A i \in 1 .. Len(last'.args) :
                        Satisfies(rec[last'.args[i].field_name], last'.args[i].filter_config) }
          /\ \A i, j \in 1 .. Len(last'.ret) :
                i < j => last'.ret[i][IdColumn][2] < last'.ret[j][IdColumn][2]]_vars

\* a filter over two fields returned some but not all of the records, and
\* left out a record that satisfies the filter of the first field alone
C19_Witness ==
    /\ last.op = "filter_records"
    /\ last.status = "ok"
    /\ Len(last.args) = 2
    /\ \A i \in 1 .. 2 : last.args[i].filter_config.type \in RangeTypes
    /\ Len(last.ret) > 0
    /\ \E rec \in AllRecords(store, last.tname) \ Returned(last.ret) :
          Satisfies(rec[last.args[1].field_name], last.args[1].filter_config)

\* the records of the table a reference field points to that hold the term,
\* normalized, as a substring of a text-like field
MatchingReferenced(s, fs, ts, field, term) ==
    LET target == CHOOSE t \in ts : Integer(t.id) = field.reference_table_id IN
    { rec \in AllRecords(s, target.name) :
        \E f \in SelectFields(fs, target.id) :
           /\ f.field_type \in { "text", "email", "url", "phone", "richtext" }
           /\ f.name \in DOMAIN rec
           /\ IsText(rec[f.name])
           /\ IsSubstring(normalize_search(term), normalize_search(rec[f.name][2])) }

\* C20: a reference filter on a reference field of the table, given that
\* field's metadata, with the referenced table present, raises nothing and
\* returns exactly the records whose reference column holds the id of a
\* referenced record matching the term: none when no referenced record
\* matches, whatever fields and rows the referenced table has.
C20_ReferenceFilterMatches ==
    [][(/\ last'.op = "filter_records"
        /\ Len(last'.args) = 1
        /\ last'.args[1].filter_config.type = "reference"
        /\ last'.args[1].filter_config.field # {}
        /\ last'.args[1].filter_config.field \subseteq get_fields(1)
        /\ Metadata(last'.args[1].filter_config).name = last'.args[1].field_name
        /\ Metadata(last'.args[1].filter_config).field_type = "reference"
        /\ \E t \in tables :
              /\ Integer(t.id) = Metadata(last'.args[1].filter_config).reference_table_id
              /\ StorageExists(t.name)
        /\ StorageExists(last'.tname)
        /\ last'.args[1].field_name \in TableInfo(last'.tname))
       => /\ last'.status = "ok"
          /\ Returned(last'.ret)
               = { rec \in AllRecords(store, last'.tname) :
                     \E q \in MatchingReferenced(store, fields, tables,
                                                 Metadata(last'.args[1].filter_config),
                                                 last'.args[1].filter_config.value) :
                        rec[last'.args[1].field_name] = q[IdColumn] }]_vars

\* the storage type the specification gives a field type
StorageKind(field_type) ==
    IF field_type = "number" THEN "REAL"
    ELSE IF field_type = "boolean" THEN "BOOLEAN"
    ELSE IF field_type = "reference" THEN "INTEGER"
    ELSE "TEXT"

\* C21: add_field of a new name to an existing table does not raise whatever
\* the field type string, and the column it adds has the storage type of
\* that field type: REAL for number, BOOLEAN for boolean, INTEGER for
\* reference, TEXT for every other type, listed or not; two fields of the
\* same type always have columns of the same storage type.
C21_StorageKindTotal ==
    [][(/\ last'.op = "add_field"
        /\ get_table(last'.id) # {}
        /\ UniqueFieldName(last'.id, last'.fname)
        /\ ~ColumnExists(last'.id, last'.fname))
       => /\ last'.status = "ok"
          /\ ColumnType(store', last'.tname, last'.fname) = StorageKind(last'.args.field_type)
          /\ \A f \in SelectFields(fields', last'.id) :
                f.field_type = last'.args.field_type
                   => ColumnType(store', last'.tname, f.name)
                        = ColumnType(store', last'.tname, last'.fname)]_vars

\* a field of a type config.FIELD_TYPES does not list was added after
\* another field of the same type, and both columns are TEXT
C21_Witness ==
    /\ last.op = "add_field"
    /\ last.status = "ok"
    /\ last.args.field_type \notin FIELD_TYPES
    /\ ColumnType(store, last.tname, last.fname) = "TEXT"
    /\ \E f \in get_fields(last.id) :
          f.name # last.fname /\ f.field_type = last.args.field_type

\* the records that cascade-reference a record, directly or through others
Descendants(table_name, record_id) ==
    Doomed(Dependents(table_name, record_id))

CascadeCycle(table_name, record_id) ==
    \E p, q \in Doomed({ <<table_name, record_id>> }) :
       /\ p[1] # q[1]
       /\ q \in Dependents(p[1], p[2])
       /\ p \in Dependents(q[1], q[2])

\* C23: a delete_record of an existing record returns only if the records
\* reachable from it through cascading references hold no cycle: when two
\* records of two tables cascade-reference each other the call does not
\* return.
C23_ReturnsOnlyIfAcyclic ==
    [][(/\ last'.op = "delete_record"
        /\ NameInUse(last'.tname)
        /\ RecordIn(store, last'.tname, last'.id))
       => ~CascadeCycle(last'.tname, last'.id)]_vars

\* the records that reference record_id of the table table_id through a
\* reference field, with the table and the field they do it by
Referencing(table_id, record_id) ==
    { [source_table |-> t.name, source_table_id |-> t.id, field_name |-> f.name,
       record_id |-> x] :
        <<t, f, x>> \in { q \in tables \X fields \X RowIds :
                            /\ q[2].table_id = q[1].id
                            /\ q[2].field_type = "reference"
                            /\ q[2].reference_table_id = Integer(table_id)
                            /\ RecordIn(store, q[1].name, q[3])
                            /\ q[2].name \in DOMAIN RecordsOf(store, q[1].name)[q[3]]
                            /\ RecordsOf(store, q[1].name)[q[3]][q[2].name] = Integer(record_id) } }

\* the field of an entry of Referencing has cascade_delete set
ByCascade(entry) ==
    \E f \in fields : /\ f.table_id = entry.source_table_id
                       /\ f.name = entry.field_name
                       /\ Truthy(f.cascade_delete)

\* C24: load_related_records returns exactly the (table, field, record)
\* entries whose reference field points to the given table and whose column
\* holds the given record id, whatever the cascade flag, and changes
\* nothing; and a delete_record of an existing record removes each of those
\* records whose field has cascade_delete set.
C24_ReferencingRecords ==
    [][/\ (last'.op = "load_related_records" /\ last'.status = "ok")
             => /\ last'.ret = Referencing(last'.args.table_id, last'.id)
                /\ UNCHANGED <<tables, fields, store, seqTables, seqFields, inTx, disk>>
       /\ (/\ last'.op = "delete_record"
           /\ NameInUse(last'.tname)
           /\ RecordIn(store, last'.tname, last'.id))
             => \A t \in tables : t.name = last'.tname =>
                   \A entry \in Referencing(t.id, last'.id) :
                      ByCascade(entry) => ~RecordIn(store', entry.source_table, entry.record_id)]_vars

\* the label the specification gives a record: the preferred field's value
\* if set and non-empty, else the first non-empty text, email, phone or url
\* field in declared order, else the first non-empty field, else the id
DisplayLabel(record, table_id, preferred) ==
    LET declared == InOrder(SelectFields(fields, table_id))
        NonEmpty(names) == SelectSeq(names, LAMBDA f : f.name # IdColumn /\ f.name \in DOMAIN record
                                                        /\ Truthy(record[f.name]))
        text_like == NonEmpty(SelectSeq(declared,
                                        LAMBDA f : f.field_type \in { "text", "email", "phone", "url" }))
        any == NonEmpty(declared) IN
    IF preferred # NoName /\ preferred \in DOMAIN record /\ Truthy(record[preferred])
    THEN Str(record[preferred])
    ELSE IF Len(text_like) > 0 THEN Str(record[text_like[1].name])
    ELSE IF Len(any) > 0 THEN Str(record[any[1].name])
    ELSE << "I", "D", ":", " " >> \o DecimalText(record[IdColumn][2])

\* C25: for every record of a table and every preferred display field, the
\* list view, the record form and the preview give the record the same
\* label, the one of the priority order of the specification.
C25_LabelsAgree ==
    \A t \in tables : StorageExists(t.name) =>
       \A record \in AllRecords(store, t.name), preferred \in DisplayFields :
          /\ RecordView_format_field_value(record, t.id, preferred)
                = DisplayLabel(record, t.id, preferred)
          /\ RecordDialog_get_record_display_name(record, t.id, preferred)
                = DisplayLabel(record, t.id, preferred)
          /\ RecordPreviewDialog_get_reference_display_name(record, t.id, preferred)
                = DisplayLabel(record, t.id, preferred)

\* the records of table_name that satisfy every column = value condition of
\* the where clause
Matching(s, table_name, where_clause) ==
    { rec \in AllRecords(s, table_name) :
        \A i \in 1 .. Len(where_clause) :
           rec[where_clause[i].column] = where_clause[i].param }

\* a set of records as the sequence ordered by id ascending
ById(records) ==
    CHOOSE seq \in [1 .. Cardinality(records) -> records] :
       \A i, j \in 1 .. Cardinality(records) :
          i < j => seq[i][IdColumn][2] < seq[j][IdColumn][2]

RECURSIVE Pages(_, _, _)
\* the pages of limit records from offset on, one after the other
Pages(records, limit, offset) ==
    IF offset >= Len(records) THEN << >>
    ELSE Page(records, limit, offset) \o Pages(records, limit, offset + limit[2])

\* C26: get_records returns the matching records ordered by id ascending:
\* all of them when limit is omitted, and with limit L > 0 and offset O the
\* elements O .. O+L-1 of that sequence, so that the pages of L records put
\* one after the other are the whole sequence; count_records returns the
\* length of the sequence get_records returns for the same where clause
\* without a limit.
C26_PagesAndCount ==
    [][(last'.op \in { "get_records", "count_records" } /\ last'.status = "ok")
       => LET all == ById(Matching(store, last'.tname, last'.args.where_clause))
              limit == last'.args.limit
              offset == last'.args.offset IN
          IF last'.op = "count_records" THEN last'.ret = Len(all)
          ELSE IF IsNull(limit) THEN last'.ret = all
          ELSE limit[2] > 0 =>
                 /\ Len(last'.ret) = IF Len(all) - offset < 0 THEN 0
                                     ELSE IF Len(all) - offset < limit[2] THEN Len(all) - offset
                                     ELSE limit[2]
                 /\ \A i \in 1 .. Len(last'.ret) : last'.ret[i] = all[offset + i]
                 /\ Pages(all, limit, 0) = all]_vars

\* the second page of one record was returned from a table of two or more
\* records
C26_Witness ==
    /\ last.op = "get_records"
    /\ last.status = "ok"
    /\ last.args.limit = Integer(1)
    /\ last.args.offset = 1
    /\ Len(last.ret) = 1
    /\ last.ret[1][IdColumn] = Integer(2)

\* C27: a delete_table that deletes a Table Definition leaves no Field
\* Definition whose reference_table_id names the deleted table: the
\* reference_table_id of every such field is set to NULL.
C27_DeleteTableNullsReferences ==
    [][(last'.op = "delete_table" /\ last'.status = "ok")
       => \A f \in fields' : f.reference_table_id # Integer(last'.id)]_vars

\* C28: identifiers are never reused: create_table never returns the id of
\* a Table Definition that has existed, and insert_record on a table never
\* returns an id it has returned for that table before, for as long as the
\* table has a Table Definition.
C28_IdsNeverReused ==
    [][/\ (last'.op = "create_table" /\ last'.status = "ok")
            => last'.ret \notin seen.tables
       /\ (last'.op = "insert_record" /\ last'.status = "ok")
            => <<Fold(last'.tname), last'.ret>> \notin seen.records]_vars

\* the records whose cascading multireference field targets table_name and
\* holds a list that contains record_id
ListHolders(table_name, record_id) ==
    { p \in PlainTableNames \X RowIds :
        /\ RecordIn(store, p[1], p[2])
        /\ \E t, o \in tables, f \in fields :
              /\ t.name = table_name
              /\ o.name = p[1]
              /\ f.table_id = o.id
              /\ f.field_type = "multireference"
              /\ f.reference_table_id = Integer(t.id)
              /\ Truthy(f.cascade_delete)
              /\ f.name \in DOMAIN store[Fold(p[1])].rows[p[2]]
              /\ \E sel \in Selections :
                    /\ \E i \in 1 .. Len(sel) : sel[i] = record_id
                    /\ store[Fold(p[1])].rows[p[2]][f.name] = Text(json_dumps(sel)) }

C30_FilesFollowRow ==
    [][(/\ last'.op = "RecordView.delete_record"
        /\ last'.args.reply = "Yes"
        /\ <<last'.tname, last'.id>> \in files)
       => (<<last'.tname, last'.id>> \in files'
             <=> RecordIn(store', last'.tname, last'.id))]_vars

====
